---- MODULE Spec2Model ----
(***************************************************************************)
(* Model of telegram-ban-bot.py: the verdict parsers of check_content and  *)
(* check_username, the image pre-filter process_image, and the three-strike*)
(* escalation of moderate_message and handle_photo_message.                *)
(*                                                                         *)
(* Text is modelled as a sequence of one-character strings, so that        *)
(* str.strip, str.lower, "in", str.startswith and str.split are computed   *)
(* on characters as Python computes them.                                  *)
(***************************************************************************)
EXTENDS Integers, Sequences, FiniteSets, TLC

(***************************************************************************)
(* Bounds of the model.                                                    *)
(***************************************************************************)
\* an event of a user is taken up only while the user's count is below this
MaxOffenses == 4
\* number of detached unpin tasks that may be pending at once
MaxPending == 1
\* number of pieces an enumerated inference response is put together from
MaxParts == 3

(***************************************************************************)
(* Python string operations.                                               *)
(***************************************************************************)
UpperAlpha ==
    <<"A","B","C","D","E","F","G","H","I","J","K","L","M",
      "N","O","P","Q","R","S","T","U","V","W","X","Y","Z">>
LowerAlpha ==
    <<"a","b","c","d","e","f","g","h","i","j","k","l","m",
      "n","o","p","q","r","s","t","u","v","w","x","y","z">>
Digits == {"0","1","2","3","4","5","6","7","8","9"}

\* str.isspace on one character
IsSpace(c) == c \in {" ", "\n", "\t", "\r"}

\* \w of the re module on one character
IsWord(c) ==
    \/ \E i \in 1..26 : c = UpperAlpha[i] \/ c = LowerAlpha[i]
    \/ c \in Digits
    \/ c = "_"

lower_char(c) ==
    IF \E i \in 1..26 : c = UpperAlpha[i]
    THEN LowerAlpha[CHOOSE i \in 1..26 : c = UpperAlpha[i]]
    ELSE c

\* str.lower
lower(s) == [i \in 1..Len(s) |-> lower_char(s[i])]

\* str.isspace: at least one character, and all of them whitespace
isspace(s) == Len(s) > 0 /\ \A i \in 1..Len(s) : IsSpace(s[i])

\* str.strip
strip(s) ==
    LET keep == {i \in 1..Len(s) : ~IsSpace(s[i])}
        lo == CHOOSE i \in keep : \A j \in keep : i <= j
        hi == CHOOSE i \in keep : \A j \in keep : i >= j
    IN  IF keep = {} THEN <<>> ELSE SubSeq(s, lo, hi)

\* str.startswith
startswith(s, prefix) ==
    Len(prefix) <= Len(s) /\ SubSeq(s, 1, Len(prefix)) = prefix

\* whether sub occurs in s at (1-based) position i
occurs_at(s, sub, i) ==
    i >= 1 /\ i + Len(sub) - 1 <= Len(s) /\ SubSeq(s, i, i + Len(sub) - 1) = sub

\* the "in" operator on strings: sub in s
contains(s, sub) == \E i \in 1..(Len(s) + 1) : occurs_at(s, sub, i)

\* str.split(sep, 1) for a one-character separator
split1(s, sep) ==
    LET hits == {i \in 1..Len(s) : s[i] = sep}
        k == CHOOSE i \in hits : \A j \in hits : i <= j
    IN  IF hits = {} THEN << s >>
        ELSE << SubSeq(s, 1, k - 1), SubSeq(s, k + 1, Len(s)) >>

RECURSIVE concat(_)
\* "".join(parts)
concat(parts) == IF parts = <<>> THEN <<>> ELSE Head(parts) \o concat(Tail(parts))

(***************************************************************************)
(* String constants of the source.                                         *)
(***************************************************************************)
UNSAFE_LC == <<"u","n","s","a","f","e">>
MOONDREAM_UNSAFE == <<"!","!","!","u","n","s","a","f","e","!","!","!">>
SAFE == <<"S","A","F","E">>
UNSAFE == <<"U","N","S","A","F","E">>
NONE_LC == <<"n","o","n","e">>
CONTENT_GENERIC_REASON ==
    <<"P","o","t","e","n","t","i","a","l","l","y"," ","i","n","a","p","p","r","o","p","r","i","a",
      "t","e"," ","o","r"," ","s","c","a","m","m","y"," ","c","o","n","t","e","n","t">>
CONTENT_DEFAULT_REASON ==
    <<"i","n","a","p","p","r","o","p","r","i","a","t","e"," ","c","o","n","t","e","n","t">>
CONTENT_UNRECOGNIZED_REASON ==
    <<"U","n","r","e","c","o","g","n","i","z","e","d"," ","r","e","s","p","o","n","s","e"," ","f",
      "o","r","m","a","t"," ","-"," ","t","r","e","a","t","i","n","g"," ","a","s"," ","p","o","t",
      "e","n","t","i","a","l","l","y"," ","u","n","s","a","f","e">>
USERNAME_GENERIC_REASON ==
    <<"P","o","t","e","n","t","i","a","l","l","y"," ","i","n","a","p","p","r","o","p","r","i","a",
      "t","e"," ","u","s","e","r","n","a","m","e">>
USERNAME_DEFAULT_REASON ==
    <<"i","n","a","p","p","r","o","p","r","i","a","t","e"," ","u","s","e","r","n","a","m","e">>
USERNAME_UNRECOGNIZED_REASON ==
    <<"U","n","r","e","c","o","g","n","i","z","e","d"," ","u","s","e","r","n","a","m","e"," ","c",
      "h","e","c","k"," ","r","e","s","p","o","n","s","e"," ","-"," ","t","r","e","a","t","i","n",
      "g"," ","w","i","t","h"," ","c","a","u","t","i","o","n">>

\* HTTP status the code accepts
HTTP_OK == 200

(***************************************************************************)
(* Verdicts and inference outcomes.                                        *)
(* A verdict is the tuple (is_safe, reason) of the source.  An inference   *)
(* outcome is what requests.post gives: it raises, or it returns a status  *)
(* code and a body whose "response" field is the text.                     *)
(***************************************************************************)
Verdict(is_safe, reason) == [safe |-> is_safe, reason |-> reason]

Outcome(raises, status_code, response) ==
    [raises |-> raises, status_code |-> status_code, response |-> response]

\* parse_content_verdict with the first test made without lower()
parse_content_verdict_case_sensitive(result) ==
    IF contains(result, UNSAFE_LC) \/ contains(result, MOONDREAM_UNSAFE)
    THEN Verdict(FALSE, CONTENT_GENERIC_REASON)
    ELSE IF startswith(result, SAFE)
    THEN Verdict(TRUE, <<>>)
    ELSE IF startswith(result, UNSAFE)
    THEN LET parts == split1(result, ":")
             reason == IF Len(parts) > 1 THEN strip(parts[2])
                       ELSE CONTENT_DEFAULT_REASON
         IN  Verdict(FALSE, reason)
    ELSE IF Len(strip(result)) = 0 \/ lower(strip(result)) = NONE_LC
    THEN Verdict(TRUE, <<>>)
    ELSE Verdict(FALSE, CONTENT_UNRECOGNIZED_REASON)

\* check_content, lines 107-122: the verdict read off the stripped response
parse_content_verdict(result) ==
    IF contains(lower(result), UNSAFE_LC) \/ contains(result, MOONDREAM_UNSAFE)
    THEN Verdict(FALSE, CONTENT_GENERIC_REASON)
    ELSE IF startswith(result, SAFE)
    THEN Verdict(TRUE, <<>>)
    ELSE IF startswith(result, UNSAFE)
    THEN LET parts == split1(result, ":")
             reason == IF Len(parts) > 1 THEN strip(parts[2])
                       ELSE CONTENT_DEFAULT_REASON
         IN  Verdict(FALSE, reason)
    ELSE IF Len(strip(result)) = 0 \/ lower(strip(result)) = NONE_LC
    THEN Verdict(TRUE, <<>>)
    ELSE Verdict(FALSE, CONTENT_UNRECOGNIZED_REASON)

\* check_content without the test of the status code
check_content_no_status_check(text, net) ==
    IF text = <<>> \/ isspace(text)
    THEN Verdict(TRUE, <<>>)
    ELSE IF net.raises
    THEN Verdict(TRUE, <<>>)
    ELSE parse_content_verdict(strip(net.response))

\* check_content(text) when the inference call ends as net
check_content(text, net) ==
    IF text = <<>> \/ isspace(text)
    THEN Verdict(TRUE, <<>>)
    ELSE IF net.raises
    THEN Verdict(TRUE, <<>>)
    ELSE IF net.status_code # HTTP_OK
    THEN Verdict(TRUE, <<>>)
    ELSE parse_content_verdict(strip(net.response))

\* check_username, lines 163-178
parse_username_verdict(result) ==
    IF contains(lower(result), UNSAFE_LC) \/ contains(result, MOONDREAM_UNSAFE)
    THEN Verdict(FALSE, USERNAME_GENERIC_REASON)
    ELSE IF startswith(result, SAFE)
    THEN Verdict(TRUE, <<>>)
    ELSE IF startswith(result, UNSAFE)
    THEN LET parts == split1(result, ":")
             reason == IF Len(parts) > 1 THEN strip(parts[2])
                       ELSE USERNAME_DEFAULT_REASON
         IN  Verdict(FALSE, reason)
    ELSE IF Len(strip(result)) = 0 \/ lower(strip(result)) = NONE_LC
    THEN Verdict(TRUE, <<>>)
    ELSE Verdict(FALSE, USERNAME_UNRECOGNIZED_REASON)

\* check_username giving the body of a failed call as the reason
check_username_keeps_body(username, net) ==
    IF username = <<>> \/ isspace(username)
    THEN Verdict(TRUE, <<>>)
    ELSE IF net.raises
    THEN Verdict(TRUE, <<>>)
    ELSE IF net.status_code # HTTP_OK
    THEN Verdict(TRUE, net.response)
    ELSE parse_username_verdict(strip(net.response))

\* check_username(username) when the inference call ends as net
check_username(username, net) ==
    IF username = <<>> \/ isspace(username)
    THEN Verdict(TRUE, <<>>)
    ELSE IF net.raises
    THEN Verdict(TRUE, <<>>)
    ELSE IF net.status_code # HTTP_OK
    THEN Verdict(TRUE, <<>>)
    ELSE parse_username_verdict(strip(net.response))

(***************************************************************************)
(* process_image: the image pre-filter.                                    *)
(***************************************************************************)
HTML_ENTITIES ==
    << <<"&","a","m","p",";">>,
       <<"&","l","t",";">>,
       <<"&","g","t",";">>,
       <<"&","q","u","o","t",";">>,
       <<"&","#","3","9",";">> >>
HTML_CHARS ==
    << <<"&">>,
       <<"<">>,
       <<">">>,
       <<"\"">>,
       <<"'">> >>

RECURSIVE html_unescape(_)
\* html.unescape, for the entities above: one pass from the left, the text an
\* entity is replaced by is not scanned again
html_unescape(s) ==
    IF s = <<>> THEN <<>>
    ELSE LET hit == {k \in 1..Len(HTML_ENTITIES) : startswith(s, HTML_ENTITIES[k])}
             k == CHOOSE x \in hit : TRUE
         IN  IF hit = {} THEN << Head(s) >> \o html_unescape(Tail(s))
             ELSE HTML_CHARS[k]
                  \o html_unescape(SubSeq(s, Len(HTML_ENTITIES[k]) + 1, Len(s)))

default_unsafe_subjects ==
    << <<"n","u","d","i","t","y">>,
       <<"p","o","r","n","o","g","r","a","p","h","y">>,
       <<"e","x","p","l","i","c","i","t">>,
       <<"s","e","x","u","a","l">>,
       <<"n","a","k","e","d">>,
       <<"n","s","f","w">>,
       <<"v","i","o","l","e","n","c","e">>,
       <<"g","o","r","e">>,
       <<"b","l","o","o","d">>,
       <<"w","e","a","p","o","n">>,
       <<"t","e","r","r","o","r","i","s","t">>,
       <<"s","u","i","c","i","d","e">>,
       <<"s","e","l","f","-","h","a","r","m">>,
       <<"d","r","u","g","s">>,
       <<"d","r","u","g"," ","u","s","e">>,
       <<"i","l","l","e","g","a","l"," ","s","u","b","s","t","a","n","c","e","s">> >>
default_scam_keywords ==
    << <<"g","i","f","t"," ","c","a","r","d">>,
       <<"c","o","n","g","r","a","t","u","l","a","t","i","o","n","s">>,
       <<"w","o","n">>,
       <<"w","i","n","n","e","r">>,
       <<"p","r","i","z","e">>,
       <<"r","e","w","a","r","d">>,
       <<"c","l","a","i","m"," ","y","o","u","r">>,
       <<"f","r","e","e"," ","m","o","n","e","y">>,
       <<"l","o","t","t","e","r","y">>,
       <<"j","a","c","k","p","o","t">>,
       <<"l","u","c","k","y"," ","d","r","a","w">>,
       <<"p","r","o","m","o","t","i","o","n"," ","c","o","d","e">>,
       <<"s","p","e","c","i","a","l"," ","o","f","f","e","r">>,
       <<"$","1","0","0","0">>,
       <<"$","5","0","0">>,
       <<"l","i","m","i","t","e","d"," ","t","i","m","e">>,
       <<"i","n","v","e","s","t","m","e","n","t"," ","o","p","p","o","r","t","u","n","i","t","y">>,
       <<"b","i","t","c","o","i","n">>,
       <<"c","r","y","p","t","o">>,
       <<"e","a","s","y"," ","m","o","n","e","y">>,
       <<"d","o","u","b","l","e"," ","y","o","u","r">>,
       <<"c","l","i","c","k"," ","h","e","r","e">>,
       <<"c","a","l","l"," ","n","o","w">>,
       <<"a","c","t"," ","i","m","m","e","d","i","a","t","e","l","y">>,
       <<"u","r","g","e","n","t">>,
       <<"w","a","r","n","i","n","g">>,
       <<"a","l","e","r","t">>,
       <<"v","i","r","u","s"," ","d","e","t","e","c","t","e","d">>,
       <<"m","a","l","w","a","r","e">>,
       <<"i","n","f","e","c","t","e","d">>,
       <<"s","e","c","u","r","i","t","y"," ","b","r","e","a","c","h">>,
       <<"h","a","c","k","e","d">>,
       <<"t","r","o","j","a","n">>,
       <<"r","a","n","s","o","m","w","a","r","e">>,
       <<"m","a","l","i","c","i","o","u","s">>,
       <<"y","o","u","r"," ","d","e","v","i","c","e">>,
       <<"y","o","u","r"," ","c","o","m","p","u","t","e","r">>,
       <<"y","o","u","r"," ","a","c","c","o","u","n","t"," ","h","a","s"," ","b","e","e","n">>,
       <<"u","n","a","u","t","h","o","r","i","z","e","d"," ","a","c","c","e","s","s">>,
       <<"t","e","c","h","n","i","c","a","l"," ","s","u","p","p","o","r","t">>,
       <<"c","l","e","a","n"," ","y","o","u","r">>,
       <<"s","c","a","n"," ","y","o","u","r">>,
       <<"f","i","x"," ","y","o","u","r">> >>
\* the alternatives of the regular expression of line 404
virus_alert_words ==
    << <<"v","i","r","u","s">>,
       <<"m","a","l","w","a","r","e">>,
       <<"i","n","f","e","c","t","e","d">>,
       <<"d","e","t","e","c","t","e","d">>,
       <<"a","l","e","r","t">>,
       <<"w","a","r","n","i","n","g">>,
       <<"s","e","c","u","r","i","t","y">> >>
\* the alternatives of the regular expression of line 405
tech_support_words ==
    << <<"c","a","l","l">>,
       <<"s","u","p","p","o","r","t">>,
       <<"c","l","e","a","n">>,
       <<"f","i","x">>,
       <<"r","e","m","o","v","e">> >>
TECH_SUPPORT_REASON ==
    <<"I","m","a","g","e"," ","a","p","p","e","a","r","s"," ","t","o"," ","b","e"," ","a"," ","t",
      "e","c","h"," ","s","u","p","p","o","r","t"," ","s","c","a","m">>
SCAM_REASON_PREFIX ==
    <<"I","m","a","g","e"," ","a","p","p","e","a","r","s"," ","t","o"," ","b","e"," ","a"," ","s",
      "c","a","m"," ","o","f","f","e","r","i","n","g"," ","'">>
SUBJECT_REASON_PREFIX ==
    <<"I","m","a","g","e"," ","c","o","n","t","a","i","n","s"," ","i","n","a","p","p","r","o","p",
      "r","i","a","t","e"," ","c","o","n","t","e","n","t",":"," ","'">>
IMAGE_REASON_PREFIX == <<"I","m","a","g","e"," ","m","a","y"," ","c","o","n","t","a","i","n"," ">>
QUOTE == <<"'">>

\* re.search of an alternation of literal words
search_any(words, s) == \E k \in 1..Len(words) : contains(s, words[k])

\* the regular expression \b at position i of s: between s[i-1] and s[i]
word_boundary(s, i) ==
    LET before == i > 1 /\ i - 1 <= Len(s) /\ IsWord(s[i - 1])
        after == i >= 1 /\ i <= Len(s) /\ IsWord(s[i])
    IN  before # after

\* re.search(r'\b' + re.escape(word) + r'\b', s)
search_whole_word(word, s) ==
    \E i \in 1..(Len(s) + 1) :
        /\ occurs_at(s, word, i)
        /\ word_boundary(s, i)
        /\ word_boundary(s, i + Len(word))

\* the result of process_image: the verdict, and how often it called check_content
ImageResult(is_safe, reason, content_calls) ==
    [safe |-> is_safe, reason |-> reason, content_calls |-> content_calls]

\* evaluate_description with the keyword scan before the compound pattern
evaluate_description_keywords_first(image_description, content_net) ==
    LET desc == lower(image_description)
        scam_hits == {k \in 1..Len(default_scam_keywords) :
                         contains(desc, default_scam_keywords[k])}
        scam_keyword == default_scam_keywords[
                            CHOOSE k \in scam_hits : \A j \in scam_hits : k <= j]
        subject_hits == {k \in 1..Len(default_unsafe_subjects) :
                            search_whole_word(default_unsafe_subjects[k], desc)}
        unsafe_subject == default_unsafe_subjects[
                              CHOOSE k \in subject_hits : \A j \in subject_hits : k <= j]
        v == check_content(image_description, content_net)
    IN  IF scam_hits # {}
        THEN ImageResult(FALSE, SCAM_REASON_PREFIX \o scam_keyword \o QUOTE, 0)
        ELSE IF search_any(virus_alert_words, desc) /\ search_any(tech_support_words, desc)
        THEN ImageResult(FALSE, TECH_SUPPORT_REASON, 0)
        ELSE IF subject_hits # {}
        THEN ImageResult(FALSE, SUBJECT_REASON_PREFIX \o unsafe_subject \o QUOTE, 0)
        ELSE IF v.safe
        THEN ImageResult(TRUE, <<>>, 1)
        ELSE ImageResult(FALSE, IMAGE_REASON_PREFIX \o v.reason, 1)

\* evaluate_description without the rule of the unsafe subjects
evaluate_description_without_subjects(image_description, content_net) ==
    LET desc == lower(image_description)
        scam_hits == {k \in 1..Len(default_scam_keywords) :
                         contains(desc, default_scam_keywords[k])}
        scam_keyword == default_scam_keywords[
                            CHOOSE k \in scam_hits : \A j \in scam_hits : k <= j]
        v == check_content(image_description, content_net)
    IN  IF search_any(virus_alert_words, desc) /\ search_any(tech_support_words, desc)
        THEN ImageResult(FALSE, TECH_SUPPORT_REASON, 0)
        ELSE IF scam_hits # {}
        THEN ImageResult(FALSE, SCAM_REASON_PREFIX \o scam_keyword \o QUOTE, 0)
        ELSE IF v.safe
        THEN ImageResult(TRUE, <<>>, 1)
        ELSE ImageResult(FALSE, IMAGE_REASON_PREFIX \o v.reason, 1)

\* process_image, lines 365-434: the rules on a non-empty description, then
\* check_content on the description when no rule fires
evaluate_description(image_description, content_net) ==
    LET desc == lower(image_description)
        virus_alert_pattern == search_any(virus_alert_words, desc)
        tech_support_pattern == search_any(tech_support_words, desc)
        scam_hits == {k \in 1..Len(default_scam_keywords) :
                         contains(desc, default_scam_keywords[k])}
        scam_keyword == default_scam_keywords[
                            CHOOSE k \in scam_hits : \A j \in scam_hits : k <= j]
        subject_hits == {k \in 1..Len(default_unsafe_subjects) :
                            search_whole_word(default_unsafe_subjects[k], desc)}
        unsafe_subject == default_unsafe_subjects[
                              CHOOSE k \in subject_hits : \A j \in subject_hits : k <= j]
        v == check_content(image_description, content_net)
    IN  IF virus_alert_pattern /\ tech_support_pattern
        THEN ImageResult(FALSE, TECH_SUPPORT_REASON, 0)
        ELSE IF scam_hits # {}
        THEN ImageResult(FALSE, SCAM_REASON_PREFIX \o scam_keyword \o QUOTE, 0)
        ELSE IF subject_hits # {}
        THEN ImageResult(FALSE, SUBJECT_REASON_PREFIX \o unsafe_subject \o QUOTE, 0)
        ELSE IF v.safe
        THEN ImageResult(TRUE, <<>>, 1)
        ELSE ImageResult(FALSE, IMAGE_REASON_PREFIX \o v.reason, 1)

\* process_image(photo_file) when the download succeeds or not, the description
\* call ends as description_net and the call of check_content as content_net
process_image(download_ok, description_net, content_net) ==
    IF ~download_ok
    THEN ImageResult(TRUE, <<>>, 0)
    ELSE IF description_net.raises
    THEN ImageResult(TRUE, <<>>, 0)
    ELSE IF description_net.status_code # HTTP_OK
    THEN ImageResult(TRUE, <<>>, 0)
    ELSE LET image_description == html_unescape(strip(description_net.response))
         IN  IF image_description = <<>>
             THEN ImageResult(TRUE, <<>>, 0)
             ELSE evaluate_description(image_description, content_net)

(***************************************************************************)
(* generate_moderation_message: the text of a notice.                      *)
(***************************************************************************)
\* the two emoji of the headers, one character each
SIREN == "U+1F6A8"
NO_ENTRY == "U+1F6AB"

DELETED_HEADER ==
    <<SIREN," ","M","E","S","S","A","G","E"," ","D","E","L","E","T","E","D"," ",SIREN>>
BAN_HEADER == <<NO_ENTRY," ","U","S","E","R"," ","R","E","M","O","V","E","D"," ",NO_ENTRY>>
BLANK_LINE == <<"\n","\n">>

\* the action kinds the handlers render notices for
MODERATION_ACTIONS == {"delete_content", "delete_username", "ban"}

DECIMAL == <<"0","1","2","3","4","5","6","7","8","9">>

RECURSIVE str_int(_)
\* str(n) of an f-string, n >= 0
str_int(n) ==
    IF n < 10 THEN << DECIMAL[n + 1] >>
    ELSE str_int(n \div 10) \o << DECIMAL[(n % 10) + 1] >>

RECURSIVE replace(_, _, _)
\* s.replace(old, new): every occurrence of old, from the left, not overlapping
replace(s, old, new) ==
    IF old = <<>>
    THEN IF s = <<>> THEN new ELSE new \o << Head(s) >> \o replace(Tail(s), old, new)
    ELSE IF Len(s) < Len(old) THEN s
    ELSE IF startswith(s, old)
    THEN new \o replace(SubSeq(s, Len(old) + 1, Len(s)), old, new)
    ELSE << Head(s) >> \o replace(Tail(s), old, new)

\* the fixed parts of the fallback messages of lines 237, 239, 241 and 263
FALLBACK_TEXT ==
    [
      hey |->
        <<"H","e","y"," ","@">>,
      removed |->
        <<","," ","y","o","u","r"," ","m","e","s","s","a","g","e"," ","w","a","s"," ","r","e",
          "m","o","v","e","d","."," ","R","e","a","s","o","n",":"," ">>,
      strike |->
        <<"."," ","S","t","r","i","k","e"," ">>,
      of_three |->
        <<"/","3",".">>,
      username |->
        <<"A"," ","m","e","s","s","a","g","e"," ","w","a","s"," ","r","e","m","o","v","e","d",
          " ","d","u","e"," ","t","o"," ","i","n","a","p","p","r","o","p","r","i","a","t","e",
          " ","u","s","e","r","n","a","m","e","."," ","R","e","a","s","o","n",":"," ">>,
      user |->
        <<"U","s","e","r"," ","@">>,
      banned |->
        <<" ","h","a","s"," ","b","e","e","n"," ","b","a","n","n","e","d"," ","a","f","t","e",
          "r"," ","m","u","l","t","i","p","l","e"," ","v","i","o","l","a","t","i","o","n","s",
          "."," ","F","i","n","a","l"," ","v","i","o","l","a","t","i","o","n",":"," ">>,
      from |->
        <<"M","e","s","s","a","g","e"," ","f","r","o","m"," ","@">>,
      rules |->
        <<" ","w","a","s"," ","r","e","m","o","v","e","d"," ","f","o","r"," ","v","i","o","l",
          "a","t","i","n","g"," ","c","o","m","m","u","n","i","t","y"," ","r","u","l","e","s",
          ".">> ]

\* lines 236-241: the message returned when the inference call answers with a
\* status other than 200
fallback_message(action_type, username, reason, offense_count) ==
    IF action_type = "delete_content"
    THEN DELETED_HEADER \o BLANK_LINE \o FALLBACK_TEXT.hey \o username
         \o FALLBACK_TEXT.removed \o reason \o FALLBACK_TEXT.strike
         \o str_int(offense_count) \o FALLBACK_TEXT.of_three
    ELSE IF action_type = "delete_username"
    THEN DELETED_HEADER \o BLANK_LINE \o FALLBACK_TEXT.username \o reason
    ELSE BAN_HEADER \o BLANK_LINE \o FALLBACK_TEXT.user \o username
         \o FALLBACK_TEXT.banned \o reason

\* line 263: the message returned when an exception is caught
default_fallback_message(username) ==
    DELETED_HEADER \o BLANK_LINE \o FALLBACK_TEXT.from \o username
    \o FALLBACK_TEXT.rules

\* lines 250-253: the header put before a generated text
with_header(action_type, response_text) ==
    IF action_type = "ban" /\ ~startswith(response_text, << NO_ENTRY >>)
    THEN BAN_HEADER \o BLANK_LINE \o response_text
    ELSE IF ~startswith(response_text, << SIREN >>)
            /\ ~startswith(response_text, << NO_ENTRY >>)
    THEN DELETED_HEADER \o BLANK_LINE \o response_text
    ELSE response_text

\* lines 256-257: the username tagged with "@"
with_mention(action_type, username, response_text) ==
    IF /\ action_type # "delete_username"
       /\ ~contains(response_text, <<"@">> \o username)
       /\ contains(response_text, username)
    THEN replace(response_text, username, <<"@">> \o username)
    ELSE response_text

\* generate_moderation_message(action_type, username, reason, offense_count)
\* when the inference call ends as net
generate_moderation_message(action_type, username, reason, offense_count, net) ==
    IF net.raises
    THEN default_fallback_message(username)
    ELSE IF net.status_code # HTTP_OK /\ action_type \in MODERATION_ACTIONS
    THEN fallback_message(action_type, username, reason, offense_count)
    ELSE with_mention(action_type, username,
                      with_header(action_type, html_unescape(net.response)))

(***************************************************************************)
(* handle_message: where a text message is routed.                         *)
(***************************************************************************)
\* context.bot.username
BOT_USERNAME == <<"B","o","t">>

\* bot_mention = f"@{bot_username}"
bot_mention(bot_username) == <<"@">> \o bot_username

\* bot_mention.lower() in message_text.lower()
is_mentioned(message_text, bot_username) ==
    contains(lower(message_text), lower(bot_mention(bot_username)))

\* clean_message = message_text.replace(bot_mention, "").strip()
clean_message(message_text, bot_username) ==
    strip(replace(message_text, bot_mention(bot_username), <<>>))

\* route_message sending every text with a mention to handle_mention
route_message_mention_first(chat_type, message_text, bot_username) ==
    IF chat_type = "private" THEN "handle_private_chat"
    ELSE IF is_mentioned(message_text, bot_username) THEN "handle_mention"
    ELSE "moderate_message"

\* the handler handle_message awaits for a text message
route_message(chat_type, message_text, bot_username) ==
    IF chat_type = "private" THEN "handle_private_chat"
    ELSE IF /\ is_mentioned(message_text, bot_username)
            /\ clean_message(message_text, bot_username) # <<>>
    THEN "handle_mention"
    ELSE "moderate_message"

(***************************************************************************)
(* The state of the bot.                                                   *)
(***************************************************************************)
VARIABLES
    user_offenses,  \* the dictionary user_offenses: user id -> offense count
    handlers,       \* the handler invocations: their local variables and position
    unpin_tasks,    \* the detached unpin tasks that have not fired yet
    history,        \* per user, what the claims need of the past:
                    \*   streak: consecutive unsafe content events since an event of
                    \*     the user found the count at 0, with no safe one between
                    \*   ban_failed: the ban call of the user's last unsafe content
                    \*     event failed
                    \*   warned: for each strike a run keeps track of, whether a
                    \*     warning naming it was sent to the user since the
                    \*     user's count was last 0
    probe           \* a pure function applied to an enumerated input, and its result

vars == << user_offenses, handlers, unpin_tasks, history, probe >>

\* the users sending events: update.message.from_user.id
Users == {1, 2}

UserDigits == <<"1","2","3","4","5","6","7","8","9">>
\* user.username or user.first_name
username_of(u) == <<"u","s","e","r">> \o << UserDigits[u] >>

\* the chats events come from: update.effective_chat (id and type)
GroupChats == {[id |-> 1, type |-> "group"], [id |-> 2, type |-> "supergroup"]}

\* message ids the transport gives to sent notices
MessageIds == 1..(MaxPending + 1)

MSG_HI == <<"h","i">>
MSG_BLANK == <<" ">>
\* update.message.text of the events
Texts == {MSG_HI, MSG_BLANK}

RESP_SAFE == <<"S","A","F","E">>
RESP_UNSAFE_SPAM == <<"U","N","S","A","F","E",":"," ","s","p","a","m">>
\* what the inference call of a classifier can end as, in the handlers
ClassifierNets ==
    { Outcome(TRUE, 0, <<>>),
      Outcome(FALSE, 500, RESP_UNSAFE_SPAM),
      Outcome(FALSE, HTTP_OK, RESP_SAFE),
      Outcome(FALSE, HTTP_OK, RESP_UNSAFE_SPAM) }

DESC_CAT == <<"a"," ","c","a","t">>
DESC_GIFT == <<"F","r","e","e"," ","G","i","f","t"," ","C","a","r","d">>
\* what the description call of process_image can end as, in the handlers
DescriptionNets ==
    { Outcome(TRUE, 0, <<>>),
      Outcome(FALSE, HTTP_OK, DESC_CAT),
      Outcome(FALSE, HTTP_OK, DESC_GIFT) }

\* asyncio.sleep delays of the unpin tasks
WARN_UNPIN_DELAY == 30
BAN_UNPIN_DELAY == 60
\* offense count from which the ban branch is taken
BAN_THRESHOLD == 3

NoVerdict == Verdict(TRUE, <<>>)

Idle ==
    [ pc |-> "idle", kind |-> "none", user |-> 0, chat |-> [id |-> 0, type |-> "none"],
      text |-> <<>>, content |-> NoVerdict, offense_count |-> 0,
      username |-> NoVerdict, sent_message |-> 0, calls |-> <<>>,
      after_ban_failure |-> FALSE, strike |-> 0 ]

Final == {"idle", "done", "raised"}

\* the handler invocations of user u that have not returned
InFlight(u) == {s \in DOMAIN handlers : handlers[s].user = u /\ handlers[s].pc \notin Final}

\* an update is taken up by the first slot whose handler has returned; a run
\* has as many slots as updates are handled at a time: one for the application
\* as main builds it (concurrent_updates is off)
MayStart(s, u) ==
    /\ handlers[s].pc \in Final
    /\ \A t \in DOMAIN handlers : t < s => handlers[t].pc \notin Final
    /\ user_offenses[u] < MaxOffenses
    /\ Cardinality(unpin_tasks) < MaxPending

Called(h, op, ok) == [h EXCEPT !.calls = Append(@, [op |-> op, ok |-> ok])]

At(h, pc) == [h EXCEPT !.pc = pc]

Set(s, h) == handlers' = [handlers EXCEPT ![s] = h]

InGroup(h) == h.chat.type \in {"group", "supergroup"}

\* sent_message.message_id: the transport numbers a notice with an id that no
\* notice still waiting for its unpin has; ids are only compared, so the least
\* such id stands for any of them
FreeMessageIds ==
    LET free == {m \in MessageIds : \A t \in unpin_tasks : t.message_id # m}
    IN  {m \in free : \A n \in free : m <= n}

\* create_unpin_task creating no task: the pinned notice is left pinned
create_unpin_task_never(h, delay) == unpin_tasks' = unpin_tasks

\* asyncio.create_task(unpin_...(chat_id, message_id))
create_unpin_task(h, delay) ==
    unpin_tasks' = unpin_tasks \cup
        {[chat_id |-> h.chat.id, message_id |-> h.sent_message, delay |-> delay]}

\* history of user u after a content verdict of an event of u
HistoryAfterVerdict(u, is_safe) ==
    LET old == history[u]
        n == IF is_safe THEN 0
             ELSE IF user_offenses[u] = 0 THEN 1
             ELSE IF old.streak > 0 THEN old.streak + 1
             ELSE 0
    IN  [history EXCEPT ![u] = [streak |-> n,
                                ban_failed |-> IF is_safe THEN old.ban_failed ELSE FALSE,
                                warned |-> IF user_offenses[u] = 0
                                           THEN [k \in DOMAIN old.warned |-> FALSE]
                                           ELSE old.warned]]

\* history of user u after the ban call of an event of u
HistoryAfterBan(u, ok) == [history EXCEPT ![u].ban_failed = ~ok]

\* history of user u after a warning with the given strike was sent to u
HistoryAfterWarning(u, strike) ==
    [history EXCEPT ![u].warned = [k \in DOMAIN @ |-> @[k] \/ k = strike]]

\* history of user u after the count of u was set to 0
HistoryAfterReset(u) == [history EXCEPT ![u].warned = [k \in DOMAIN @ |-> FALSE]]

\* the state after construction, for a run with events of the given users, as
\* many updates handled at a time as there are slots, and the warnings of the
\* given strikes kept track of
InitOf(users, slots, strikes) ==
    /\ user_offenses = [u \in users |-> 0]
    /\ handlers = [s \in slots |-> Idle]
    /\ unpin_tasks = {}
    /\ history = [u \in users |-> [streak |-> 0, ban_failed |-> FALSE,
                                    warned |-> [k \in strikes |-> FALSE]]]
    /\ probe = [fn |-> "none"]

InitWatching(strikes) == InitOf(Users, {1}, strikes)

Init == InitWatching({})

(***************************************************************************)
(* handle_message and moderate_message: a group text without bot mention.  *)
(***************************************************************************)
\* handle_message routes the text to moderate_message, which calls check_content
handle_message(s) ==
    \E u \in DOMAIN user_offenses, c \in GroupChats, t \in Texts :
        /\ MayStart(s, u)
        /\ Set(s, [Idle EXCEPT !.pc = "check_content", !.kind = "text", !.user = u,
                               !.chat = c, !.text = t])
        /\ UNCHANGED << user_offenses, unpin_tasks, history, probe >>

\* count_offense without the test of the verdict
count_offense_always(user_id, is_safe) == [user_offenses EXCEPT ![user_id] = @ + 1]

\* count_offense with one counter for all users
count_offense_shared(user_id, is_safe) ==
    IF is_safe THEN user_offenses ELSE [u \in DOMAIN user_offenses |-> user_offenses[u] + 1]

\* "if not content_safe: user_offenses[user_id] += 1": the dictionary after the
\* content verdict of an event of user_id
count_offense(user_id, is_safe) ==
    IF is_safe THEN user_offenses ELSE [user_offenses EXCEPT ![user_id] = @ + 1]

\* offenses_after_ban taking one strike off instead of all
offenses_after_ban_decrement(user_id) == [user_offenses EXCEPT ![user_id] = @ - 1]

\* "user_offenses[user_id] = 0": the dictionary after the reset
offenses_after_ban(user_id) == [user_offenses EXCEPT ![user_id] = 0]

reset_offenses(h) ==
    /\ user_offenses' = offenses_after_ban(h.user)
    /\ history' = HistoryAfterReset(h.user)

\* "offense_count=offense_count": the strike a text warning is rendered with
text_strike(offense_count) == offense_count

\* "if offense_count == 1: ... else: # Must be strike 2": the strike the
\* warning of a photo names
photo_strike(offense_count) == IF offense_count = 1 THEN 1 ELSE 2

\* escalation_branch banning only after the third strike
escalation_branch_late(offense_count, warn) ==
    IF offense_count > BAN_THRESHOLD THEN "ban" ELSE warn

\* "if offense_count >= 3": the call awaited after a successful delete
escalation_branch(offense_count, warn) ==
    IF offense_count >= BAN_THRESHOLD THEN "ban" ELSE warn

\* username_branch without the test of the verdict
username_branch_always(is_safe) == "delete_username"

\* "if not username_safe": what follows the username verdict
username_branch(is_safe) == IF is_safe THEN "done" ELSE "delete_username"

\* after_content_verdict reading the strike before the increment
after_content_verdict_stale(h, v, op, if_safe) ==
    LET h1 == Called([h EXCEPT !.content = v], op, TRUE)
    IN  IF v.safe THEN At(h1, if_safe)
        ELSE At([h1 EXCEPT !.offense_count = user_offenses[h.user],
                           !.after_ban_failure = history[h.user].ban_failed],
                "delete")

\* the local variables after the content verdict v, and the call awaited next
after_content_verdict(h, v, op, if_safe) ==
    LET h1 == Called([h EXCEPT !.content = v], op, TRUE)
    IN  IF v.safe THEN At(h1, if_safe)
        ELSE At([h1 EXCEPT !.offense_count = user_offenses'[h.user],
                           !.after_ban_failure = history[h.user].ban_failed],
                "delete")

\* check_content returns; unsafe: count the offense and call delete
moderate_check_content(s) ==
    LET h == handlers[s] IN
    /\ h.kind = "text" /\ h.pc = "check_content"
    /\ \E net \in ClassifierNets :
        \E v \in {check_content(h.text, net)} :
            /\ user_offenses' = count_offense(h.user, v.safe)
            /\ history' = HistoryAfterVerdict(h.user, v.safe)
            /\ Set(s, after_content_verdict(h, v, "check_content", "check_username"))
    /\ UNCHANGED << unpin_tasks, probe >>

\* update.message.delete() returns or raises
moderate_delete(s) ==
    LET h == handlers[s] IN
    /\ h.kind = "text" /\ h.pc = "delete"
    /\ \E ok \in BOOLEAN :
        LET h1 == Called(h, "delete", ok)
        IN  IF ~ok
            THEN Set(s, At(h1, "check_username"))
            ELSE Set(s, At(h1, escalation_branch(h.offense_count, "render_warn")))
    /\ UNCHANGED << user_offenses, unpin_tasks, history, probe >>

\* after_ban going on to the ban notice whatever the ban call did
after_ban_regardless(ok, notice) == notice

\* what follows context.bot.ban_chat_member: the ban notice, or the except of
\* the inner try and the return when the call raised
after_ban(ok, notice) == IF ok THEN notice ELSE "done"

\* context.bot.ban_chat_member returns or raises
moderate_ban(s) ==
    LET h == handlers[s] IN
    /\ h.kind = "text" /\ h.pc = "ban"
    /\ \E ok \in BOOLEAN :
        LET h1 == Called(h, "ban", ok)
        IN  /\ Set(s, At(h1, after_ban(ok, "render_ban")))
            /\ history' = HistoryAfterBan(h.user, ok)
    /\ UNCHANGED << user_offenses, unpin_tasks, probe >>

\* generate_moderation_message("ban", ...) returns the notice; it never raises
moderate_render_ban(s) ==
    LET h == handlers[s] IN
    /\ h.kind = "text" /\ h.pc = "render_ban"
    /\ Set(s, At(Called(h, "render", TRUE), "send_ban"))
    /\ UNCHANGED << user_offenses, unpin_tasks, history, probe >>

\* send_message of the ban notice returns or raises
moderate_send_ban(s) ==
    LET h == handlers[s] IN
    /\ h.kind = "text" /\ h.pc = "send_ban"
    /\ \/ /\ Set(s, At(Called(h, "send", FALSE), "done"))
          /\ UNCHANGED << user_offenses, history >>
       \/ \E m \in FreeMessageIds :
            LET h1 == [Called(h, "send", TRUE) EXCEPT !.sent_message = m]
            IN  IF InGroup(h)
                THEN Set(s, At(h1, "pin_ban")) /\ UNCHANGED << user_offenses, history >>
                ELSE Set(s, At(h1, "done")) /\ reset_offenses(h)
    /\ UNCHANGED << unpin_tasks, probe >>

\* pin_chat_message of the ban notice returns or raises; then the reset
moderate_pin_ban(s) ==
    LET h == handlers[s] IN
    /\ h.kind = "text" /\ h.pc = "pin_ban"
    /\ \E ok \in BOOLEAN :
        /\ IF ok
           THEN /\ create_unpin_task(h, BAN_UNPIN_DELAY)
                /\ Set(s, At(Called(Called(h, "pin", TRUE), "create_task", TRUE), "done"))
           ELSE /\ UNCHANGED unpin_tasks
                /\ Set(s, At(Called(h, "pin", FALSE), "done"))
        /\ reset_offenses(h)
    /\ UNCHANGED probe

\* generate_moderation_message("delete_content", ...) returns the notice
moderate_render_warn(s) ==
    LET h == handlers[s] IN
    /\ h.kind = "text" /\ h.pc = "render_warn"
    /\ Set(s, At(Called([h EXCEPT !.strike = text_strike(h.offense_count)], "render", TRUE),
                 "send_warn"))
    /\ UNCHANGED << user_offenses, unpin_tasks, history, probe >>

\* send_message of the warning returns or raises
moderate_send_warn(s) ==
    LET h == handlers[s] IN
    /\ h.kind = "text" /\ h.pc = "send_warn"
    /\ \/ /\ Set(s, At(Called(h, "send", FALSE), "check_username"))
          /\ UNCHANGED history
       \/ \E m \in FreeMessageIds :
            LET h1 == [Called(h, "send", TRUE) EXCEPT !.sent_message = m]
            IN  /\ IF InGroup(h) THEN Set(s, At(h1, "pin_warn"))
                   ELSE Set(s, At(h1, "done"))
                /\ history' = HistoryAfterWarning(h.user, h.strike)
    /\ UNCHANGED << user_offenses, unpin_tasks, probe >>

\* pin_chat_message of the warning returns or raises
moderate_pin_warn(s) ==
    LET h == handlers[s] IN
    /\ h.kind = "text" /\ h.pc = "pin_warn"
    /\ \E ok \in BOOLEAN :
        IF ok
        THEN /\ create_unpin_task(h, WARN_UNPIN_DELAY)
             /\ Set(s, At(Called(Called(h, "pin", TRUE), "create_task", TRUE), "done"))
        ELSE /\ UNCHANGED unpin_tasks
             /\ Set(s, At(Called(h, "pin", FALSE), "done"))
    /\ UNCHANGED << user_offenses, history, probe >>

\* check_username returns
moderate_check_username(s) ==
    LET h == handlers[s] IN
    /\ h.kind = "text" /\ h.pc = "check_username"
    /\ \E net \in ClassifierNets :
        \E v \in {check_username(username_of(h.user), net)} :
            LET h1 == Called([h EXCEPT !.username = v], "check_username", TRUE)
            IN  Set(s, At(h1, username_branch(v.safe)))
    /\ UNCHANGED << user_offenses, unpin_tasks, history, probe >>

\* offenses_on_username_violation counting the violation as a strike
offenses_on_username_violation_counted(user_id) ==
    [user_offenses EXCEPT ![user_id] = @ + 1]

\* the dictionary after "if not username_safe:": the branch has no statement
\* on user_offenses
offenses_on_username_violation(user_id) == user_offenses

\* update.message.delete() of the username path returns or raises
moderate_delete_username(s) ==
    LET h == handlers[s] IN
    /\ h.kind = "text" /\ h.pc = "delete_username"
    /\ user_offenses' = offenses_on_username_violation(h.user)
    /\ \E ok \in BOOLEAN :
        LET h1 == Called(h, "delete", ok)
        IN  IF ok THEN Set(s, At(h1, "render_username")) ELSE Set(s, At(h1, "done"))
    /\ UNCHANGED << unpin_tasks, history, probe >>

\* generate_moderation_message("delete_username", ...) returns the notice
moderate_render_username(s) ==
    LET h == handlers[s] IN
    /\ h.kind = "text" /\ h.pc = "render_username"
    /\ Set(s, At(Called(h, "render", TRUE), "send_username"))
    /\ UNCHANGED << user_offenses, unpin_tasks, history, probe >>

\* send_message of the username notice returns or raises
moderate_send_username(s) ==
    LET h == handlers[s] IN
    /\ h.kind = "text" /\ h.pc = "send_username"
    /\ \/ Set(s, At(Called(h, "send", FALSE), "done"))
       \/ \E m \in FreeMessageIds :
            LET h1 == [Called(h, "send", TRUE) EXCEPT !.sent_message = m]
            IN  IF InGroup(h) THEN Set(s, At(h1, "pin_username"))
                ELSE Set(s, At(h1, "done"))
    /\ UNCHANGED << user_offenses, unpin_tasks, history, probe >>

\* pin_chat_message of the username notice returns or raises
moderate_pin_username(s) ==
    LET h == handlers[s] IN
    /\ h.kind = "text" /\ h.pc = "pin_username"
    /\ \E ok \in BOOLEAN :
        IF ok
        THEN /\ create_unpin_task(h, WARN_UNPIN_DELAY)
             /\ Set(s, At(Called(Called(h, "pin", TRUE), "create_task", TRUE), "done"))
        ELSE /\ UNCHANGED unpin_tasks
             /\ Set(s, At(Called(h, "pin", FALSE), "done"))
    /\ UNCHANGED << user_offenses, history, probe >>

(***************************************************************************)
(* handle_photo_message: a photo in a group.                               *)
(***************************************************************************)
\* the handler is entered and awaits get_file
handle_photo_message(s) ==
    \E u \in DOMAIN user_offenses, c \in GroupChats :
        /\ MayStart(s, u)
        /\ Set(s, [Idle EXCEPT !.pc = "get_file", !.kind = "photo", !.user = u, !.chat = c])
        /\ UNCHANGED << user_offenses, unpin_tasks, history, probe >>

\* the chat of the runs with two updates at a time
ALBUM_CHAT == [id |-> 2, type |-> "supergroup"]

\* handle_photo_message for the photos one user sends to one chat at once (an
\* album arrives as one photo message per picture)
handle_photo_album(s) ==
    \E u \in DOMAIN user_offenses :
        /\ MayStart(s, u)
        /\ Set(s, [Idle EXCEPT !.pc = "get_file", !.kind = "photo", !.user = u,
                               !.chat = ALBUM_CHAT])
        /\ UNCHANGED << user_offenses, unpin_tasks, history, probe >>

\* get_file returns or raises; it is awaited outside every try block
photo_get_file(s) ==
    LET h == handlers[s] IN
    /\ h.kind = "photo" /\ h.pc = "get_file"
    /\ \E ok \in BOOLEAN :
        LET h1 == Called(h, "get_file", ok)
        IN  IF ok THEN Set(s, At(h1, "process_image")) ELSE Set(s, At(h1, "raised"))
    /\ UNCHANGED << user_offenses, unpin_tasks, history, probe >>

\* what process_image can return in the handlers: its result for every outcome
\* of the download, the description call and the classifier call
PhotoResults ==
    {process_image(download_ok, dnet, cnet) :
        download_ok \in BOOLEAN, dnet \in DescriptionNets, cnet \in ClassifierNets}

\* process_image returns; unsafe: count the offense and call delete
photo_process_image(s) ==
    LET h == handlers[s] IN
    /\ h.kind = "photo" /\ h.pc = "process_image"
    /\ \E r \in PhotoResults :
            LET v == Verdict(r.safe, r.reason) IN
            /\ user_offenses' = count_offense(h.user, v.safe)
            /\ history' = HistoryAfterVerdict(h.user, v.safe)
            /\ Set(s, after_content_verdict(h, v, "process_image", "done"))
    /\ UNCHANGED << unpin_tasks, probe >>

\* photo_after_delete going on to the escalation whatever the delete did
photo_after_delete_regardless(ok, branch) == branch

\* what follows update.message.delete() in handle_photo_message: the branch of
\* the escalation, or the except of the outer try when the call raised
photo_after_delete(ok, branch) == IF ok THEN branch ELSE "done"

\* update.message.delete() returns or raises; on the warn branch the warning
\* is built and send_message called
photo_delete(s) ==
    LET h == handlers[s] IN
    /\ h.kind = "photo" /\ h.pc = "delete"
    /\ \E ok \in BOOLEAN :
        \E branch \in {photo_after_delete(ok, escalation_branch(h.offense_count, "send_warn"))} :
            LET h1 == Called(h, "delete", ok)
            IN  IF branch = "send_warn"
                THEN Set(s, At([h1 EXCEPT !.strike = photo_strike(h.offense_count)], branch))
                ELSE Set(s, At(h1, branch))
    /\ UNCHANGED << user_offenses, unpin_tasks, history, probe >>

\* context.bot.ban_chat_member returns or raises
photo_ban(s) ==
    LET h == handlers[s] IN
    /\ h.kind = "photo" /\ h.pc = "ban"
    /\ \E ok \in BOOLEAN :
        LET h1 == Called(h, "ban", ok)
        IN  /\ Set(s, At(h1, after_ban(ok, "send_ban")))
            /\ history' = HistoryAfterBan(h.user, ok)
    /\ UNCHANGED << user_offenses, unpin_tasks, probe >>

\* send_message of the ban notice returns or raises
photo_send_ban(s) ==
    LET h == handlers[s] IN
    /\ h.kind = "photo" /\ h.pc = "send_ban"
    /\ \/ /\ Set(s, At(Called(h, "send", FALSE), "done"))
          /\ UNCHANGED << user_offenses, history >>
       \/ \E m \in FreeMessageIds :
            LET h1 == [Called(h, "send", TRUE) EXCEPT !.sent_message = m]
            IN  IF InGroup(h)
                THEN Set(s, At(h1, "pin_ban")) /\ UNCHANGED << user_offenses, history >>
                ELSE Set(s, At(h1, "done")) /\ reset_offenses(h)
    /\ UNCHANGED << unpin_tasks, probe >>

\* pin_chat_message of the ban notice returns or raises; then the reset
photo_pin_ban(s) ==
    LET h == handlers[s] IN
    /\ h.kind = "photo" /\ h.pc = "pin_ban"
    /\ \E ok \in BOOLEAN :
        /\ IF ok
           THEN /\ create_unpin_task(h, BAN_UNPIN_DELAY)
                /\ Set(s, At(Called(Called(h, "pin", TRUE), "create_task", TRUE), "done"))
           ELSE /\ UNCHANGED unpin_tasks
                /\ Set(s, At(Called(h, "pin", FALSE), "done"))
        /\ reset_offenses(h)
    /\ UNCHANGED probe

\* send_message of the warning returns or raises
photo_send_warn(s) ==
    LET h == handlers[s] IN
    /\ h.kind = "photo" /\ h.pc = "send_warn"
    /\ \/ /\ Set(s, At(Called(h, "send", FALSE), "done"))
          /\ UNCHANGED history
       \/ \E m \in FreeMessageIds :
            LET h1 == [Called(h, "send", TRUE) EXCEPT !.sent_message = m]
            IN  /\ IF InGroup(h) THEN Set(s, At(h1, "pin_warn"))
                   ELSE Set(s, At(h1, "done"))
                /\ history' = HistoryAfterWarning(h.user, h.strike)
    /\ UNCHANGED << user_offenses, unpin_tasks, probe >>

\* pin_chat_message of the warning returns or raises
photo_pin_warn(s) ==
    LET h == handlers[s] IN
    /\ h.kind = "photo" /\ h.pc = "pin_warn"
    /\ \E ok \in BOOLEAN :
        IF ok
        THEN /\ create_unpin_task(h, WARN_UNPIN_DELAY)
             /\ Set(s, At(Called(Called(h, "pin", TRUE), "create_task", TRUE), "done"))
        ELSE /\ UNCHANGED unpin_tasks
             /\ Set(s, At(Called(h, "pin", FALSE), "done"))
    /\ UNCHANGED << user_offenses, history, probe >>

(***************************************************************************)
(* handle_message in private chats and for mentions, handle_private_chat,  *)
(* handle_mention and the private branch of handle_photo_message.          *)
(***************************************************************************)
PRIVATE_CHAT == [id |-> 3, type |-> "private"]

\* group texts that hold the bot mention
MENTION_TEXTS ==
    { bot_mention(BOT_USERNAME),
      bot_mention(BOT_USERNAME) \o <<" ">> \o MSG_HI,
      lower(bot_mention(BOT_USERNAME)) }

\* handle_message routes a text event of the given chat
dispatch_text(s, u, c, t) ==
    /\ MayStart(s, u)
    /\ \E r \in {route_message(c.type, t, BOT_USERNAME)} :
        Set(s, [Idle EXCEPT !.user = u, !.chat = c, !.text = t,
                            !.pc = CASE r = "handle_private_chat" -> "private_chat_action"
                                     [] r = "handle_mention"      -> "mention_chat_action"
                                     [] OTHER                     -> "check_content",
                            !.kind = CASE r = "handle_private_chat" -> "private"
                                       [] r = "handle_mention"      -> "mention"
                                       [] OTHER                     -> "text"])
    /\ UNCHANGED << user_offenses, unpin_tasks, history, probe >>

\* handle_message for a text in a private chat
handle_message_private(s) ==
    \E u \in DOMAIN user_offenses : dispatch_text(s, u, PRIVATE_CHAT, MSG_HI)

\* handle_message for a group text that holds the bot mention
handle_message_mention(s) ==
    \E u \in DOMAIN user_offenses, c \in GroupChats, t \in MENTION_TEXTS :
        dispatch_text(s, u, c, t)

\* handle_private_chat: send_chat_action returns or raises
private_chat_action(s) ==
    LET h == handlers[s] IN
    /\ h.pc = "private_chat_action"
    /\ \E ok \in BOOLEAN :
        Set(s, At(Called(h, "chat_action", ok),
                  IF ok THEN "private_reply" ELSE "private_fallback_reply"))
    /\ UNCHANGED << user_offenses, unpin_tasks, history, probe >>

\* handle_private_chat: generate_chat_response returns a text (it raises
\* nothing), then reply_text returns or raises
private_reply(s) ==
    LET h == handlers[s] IN
    /\ h.pc = "private_reply"
    /\ \E ok \in BOOLEAN :
        Set(s, At(Called(Called(h, "generate_chat_response", TRUE), "reply", ok),
                  IF ok THEN "done" ELSE "private_fallback_reply"))
    /\ UNCHANGED << user_offenses, unpin_tasks, history, probe >>

\* handle_private_chat: the reply_text of the except branch returns or raises
private_fallback_reply(s) ==
    LET h == handlers[s] IN
    /\ h.pc = "private_fallback_reply"
    /\ \E ok \in BOOLEAN :
        Set(s, At(Called(h, "reply", ok), IF ok THEN "done" ELSE "raised"))
    /\ UNCHANGED << user_offenses, unpin_tasks, history, probe >>

\* handle_mention: send_chat_action returns or raises
mention_chat_action(s) ==
    LET h == handlers[s] IN
    /\ h.pc = "mention_chat_action"
    /\ \E ok \in BOOLEAN :
        Set(s, At(Called(h, "chat_action", ok), IF ok THEN "mention_reply" ELSE "done"))
    /\ UNCHANGED << user_offenses, unpin_tasks, history, probe >>

\* handle_mention: generate_chat_response returns a text, then reply_text
\* returns or raises; a failure is logged only
mention_reply(s) ==
    LET h == handlers[s] IN
    /\ h.pc = "mention_reply"
    /\ \E ok \in BOOLEAN :
        Set(s, At(Called(Called(h, "generate_chat_response", TRUE), "reply", ok), "done"))
    /\ UNCHANGED << user_offenses, unpin_tasks, history, probe >>

\* handle_photo_message for a photo in a private chat: the handler is entered
\* and awaits get_file
handle_photo_private(s) ==
    \E u \in DOMAIN user_offenses :
        /\ MayStart(s, u)
        /\ Set(s, [Idle EXCEPT !.pc = "private_photo", !.kind = "private_photo",
                               !.user = u, !.chat = PRIVATE_CHAT])
        /\ UNCHANGED << user_offenses, unpin_tasks, history, probe >>

\* the calls of the private branch, in their order; none is in a try block
PRIVATE_PHOTO_CALLS == <<"get_file", "chat_action", "reply">>

\* the next call of the private branch returns or raises
private_photo_call(s) ==
    LET h == handlers[s]
        n == Len(h.calls) + 1
    IN
    /\ h.pc = "private_photo"
    /\ \E ok \in BOOLEAN :
        Set(s, At(Called(h, PRIVATE_PHOTO_CALLS[n], ok),
                  IF ~ok THEN "raised"
                  ELSE IF n = Len(PRIVATE_PHOTO_CALLS) THEN "done"
                  ELSE "private_photo"))
    /\ UNCHANGED << user_offenses, unpin_tasks, history, probe >>

(***************************************************************************)
(* The detached unpin tasks.                                               *)
(***************************************************************************)
\* unpin_later, unpin_ban_message, unpin_username_message: after the sleep,
\* unpin_chat_message returns or raises; a failure is logged only
unpin_later(t) ==
    /\ t \in unpin_tasks
    /\ \E ok \in BOOLEAN : unpin_tasks' = unpin_tasks \ {t}
    /\ UNCHANGED << user_offenses, handlers, history, probe >>

Next ==
    \/ \E s \in DOMAIN handlers : handle_message(s)
    \/ \E s \in DOMAIN handlers : moderate_check_content(s)
    \/ \E s \in DOMAIN handlers : moderate_delete(s)
    \/ \E s \in DOMAIN handlers : moderate_ban(s)
    \/ \E s \in DOMAIN handlers : moderate_render_ban(s)
    \/ \E s \in DOMAIN handlers : moderate_send_ban(s)
    \/ \E s \in DOMAIN handlers : moderate_pin_ban(s)
    \/ \E s \in DOMAIN handlers : moderate_render_warn(s)
    \/ \E s \in DOMAIN handlers : moderate_send_warn(s)
    \/ \E s \in DOMAIN handlers : moderate_pin_warn(s)
    \/ \E s \in DOMAIN handlers : moderate_check_username(s)
    \/ \E s \in DOMAIN handlers : moderate_delete_username(s)
    \/ \E s \in DOMAIN handlers : moderate_render_username(s)
    \/ \E s \in DOMAIN handlers : moderate_send_username(s)
    \/ \E s \in DOMAIN handlers : moderate_pin_username(s)
    \/ \E s \in DOMAIN handlers : handle_photo_message(s)
    \/ \E s \in DOMAIN handlers : photo_get_file(s)
    \/ \E s \in DOMAIN handlers : photo_process_image(s)
    \/ \E s \in DOMAIN handlers : photo_delete(s)
    \/ \E s \in DOMAIN handlers : photo_ban(s)
    \/ \E s \in DOMAIN handlers : photo_send_ban(s)
    \/ \E s \in DOMAIN handlers : photo_pin_ban(s)
    \/ \E s \in DOMAIN handlers : photo_send_warn(s)
    \/ \E s \in DOMAIN handlers : photo_pin_warn(s)
    \/ \E t \in unpin_tasks : unpin_later(t)

Spec == Init /\ [][Next]_vars

\* the strikes a warning can name
WarningStrikes == {1, 2}

\* the same bot, with the warnings sent to each user kept track of
InitWarnings == InitWatching(WarningStrikes)

SpecWarnings == InitWarnings /\ [][Next]_vars

\* the users of the runs with private chats and mentions
ChatUsers == {1}

InitChats == InitOf(ChatUsers, {1}, {})

NextChats ==
    \/ \E s \in DOMAIN handlers : handle_message(s)
    \/ \E s \in DOMAIN handlers : moderate_check_content(s)
    \/ \E s \in DOMAIN handlers : moderate_delete(s)
    \/ \E s \in DOMAIN handlers : moderate_ban(s)
    \/ \E s \in DOMAIN handlers : moderate_render_ban(s)
    \/ \E s \in DOMAIN handlers : moderate_send_ban(s)
    \/ \E s \in DOMAIN handlers : moderate_pin_ban(s)
    \/ \E s \in DOMAIN handlers : moderate_render_warn(s)
    \/ \E s \in DOMAIN handlers : moderate_send_warn(s)
    \/ \E s \in DOMAIN handlers : moderate_pin_warn(s)
    \/ \E s \in DOMAIN handlers : moderate_check_username(s)
    \/ \E s \in DOMAIN handlers : moderate_delete_username(s)
    \/ \E s \in DOMAIN handlers : moderate_render_username(s)
    \/ \E s \in DOMAIN handlers : moderate_send_username(s)
    \/ \E s \in DOMAIN handlers : moderate_pin_username(s)
    \/ \E s \in DOMAIN handlers : handle_photo_message(s)
    \/ \E s \in DOMAIN handlers : photo_get_file(s)
    \/ \E s \in DOMAIN handlers : photo_process_image(s)
    \/ \E s \in DOMAIN handlers : photo_delete(s)
    \/ \E s \in DOMAIN handlers : photo_ban(s)
    \/ \E s \in DOMAIN handlers : photo_send_ban(s)
    \/ \E s \in DOMAIN handlers : photo_pin_ban(s)
    \/ \E s \in DOMAIN handlers : photo_send_warn(s)
    \/ \E s \in DOMAIN handlers : photo_pin_warn(s)
    \/ \E t \in unpin_tasks : unpin_later(t)
    \/ \E s \in DOMAIN handlers : handle_message_private(s)
    \/ \E s \in DOMAIN handlers : handle_message_mention(s)
    \/ \E s \in DOMAIN handlers : private_chat_action(s)
    \/ \E s \in DOMAIN handlers : private_reply(s)
    \/ \E s \in DOMAIN handlers : private_fallback_reply(s)
    \/ \E s \in DOMAIN handlers : mention_chat_action(s)
    \/ \E s \in DOMAIN handlers : mention_reply(s)
    \/ \E s \in DOMAIN handlers : handle_photo_private(s)
    \/ \E s \in DOMAIN handlers : private_photo_call(s)

\* the bot with the events of every chat type
SpecChats == InitChats /\ [][NextChats]_vars

\* the bot handling two updates of one user at a time, the handlers
\* interleaving at every await
InitConcurrent == InitOf(ChatUsers, {1, 2}, {})

\* the steps of the photo handlers and of the unpin tasks
NextConcurrent ==
    \/ \E s \in DOMAIN handlers : handle_photo_album(s)
    \/ \E s \in DOMAIN handlers : photo_get_file(s)
    \/ \E s \in DOMAIN handlers : photo_process_image(s)
    \/ \E s \in DOMAIN handlers : photo_delete(s)
    \/ \E s \in DOMAIN handlers : photo_ban(s)
    \/ \E s \in DOMAIN handlers : photo_send_ban(s)
    \/ \E s \in DOMAIN handlers : photo_pin_ban(s)
    \/ \E s \in DOMAIN handlers : photo_send_warn(s)
    \/ \E s \in DOMAIN handlers : photo_pin_warn(s)
    \/ \E t \in unpin_tasks : unpin_later(t)

SpecConcurrent == InitConcurrent /\ [][NextConcurrent]_vars

\* the unpin tasks a run can create
UnpinTasks ==
    [chat_id : {c.id : c \in GroupChats}, message_id : MessageIds,
     delay : {WARN_UNPIN_DELAY, BAN_UNPIN_DELAY}]

\* the same bot on an event loop that runs every task whose sleep is over
SpecUnpin ==
    InitChats /\ [][NextChats]_vars /\ \A t \in UnpinTasks : WF_vars(unpin_later(t))

(***************************************************************************)
(* The classifiers as functions: every enumerated subject and inference    *)
(* outcome is given to check_content, check_username and process_image.    *)
(***************************************************************************)
Pieces ==
    << <<"S","A","F","E">>,
       <<"U","N","S","A","F","E">>,
       <<"u","n","s","a","f","e">>,
       <<"u","n">>,
       <<"N","o","n","e">>,
       <<":">>,
       <<" ">>,
       <<"s","p","a","m">> >>

\* the response texts: up to MaxParts pieces joined
Responses ==
    {concat(ps) : ps \in UNION {[1..n -> {Pieces[k] : k \in 1..Len(Pieces)}] : n \in 0..MaxParts}}

\* the inference outcomes: the call raises, or returns status 500 or 200 with a text
Nets(texts) ==
    {Outcome(TRUE, 0, <<>>)} \cup
    {Outcome(FALSE, code, r) : code \in {HTTP_OK, 500}, r \in texts}

\* subjects given to the classifiers: none, whitespace, a text
Subjects == {<<>>, <<" ", "\n">>, MSG_HI}

DESC_SCAM ==
    <<"Y","o","u","r"," ","c","o","m","p","u","t","e","r"," ","h","a","s"," ","a"," ","v","i","r",
      "u","s","!"," ","C","a","l","l"," ","s","u","p","p","o","r","t"," ","n","o","w"," ","t","o",
      " ","f","i","x"," ","i","t">>
DESC_NAKED == <<"a"," ","n","a","k","e","d"," ","p","e","r","s","o","n">>
DESC_BLANK == <<" ","\n">>
DESC_ENTITY == <<"c","a","t"," ","&","a","m","p",";"," ","d","o","g">>
DESC_WINNER ==
    <<"W","i","n","n","e","r"," ","g","e","t","s"," ","a"," ","G","i","f","t"," ","C","a","r",
      "d">>
DESC_REMOVE ==
    <<"S","e","c","u","r","i","t","y"," ","t","o","o","l"," ","t","o"," ","r","e","m","o","v","e",
      " ","f","i","l","e","s">>
\* the descriptions the vision model gives
Descriptions ==
    {<<>>, DESC_BLANK, DESC_CAT, DESC_GIFT, DESC_SCAM, DESC_NAKED, DESC_ENTITY, DESC_WINNER,
     DESC_REMOVE}

apply_check_content ==
    /\ probe.fn = "none"
    /\ \E text \in Subjects, net \in Nets(Responses) :
        probe' = [fn |-> "check_content", subject |-> text, net |-> net,
                  verdict |-> check_content(text, net)]
    /\ UNCHANGED << user_offenses, handlers, unpin_tasks, history >>

apply_check_username ==
    /\ probe.fn = "none"
    /\ \E username \in Subjects, net \in Nets(Responses) :
        probe' = [fn |-> "check_username", subject |-> username, net |-> net,
                  verdict |-> check_username(username, net)]
    /\ UNCHANGED << user_offenses, handlers, unpin_tasks, history >>

apply_process_image ==
    /\ probe.fn = "none"
    /\ \E download_ok \in BOOLEAN, dnet \in Nets(Descriptions), cnet \in ClassifierNets :
        probe' = [fn |-> "process_image", download_ok |-> download_ok, net |-> dnet,
                  content_net |-> cnet,
                  verdict |-> process_image(download_ok, dnet, cnet)]
    /\ UNCHANGED << user_offenses, handlers, unpin_tasks, history >>

\* what generated texts are made of: the emoji, a username, "@", a space, a word
NoticePieces ==
    << << SIREN >>,
       << NO_ENTRY >>,
       username_of(1),
       <<"@">>,
       <<" ">>,
       <<"o","k">> >>

\* the generated texts: up to MaxParts pieces joined
NoticeResponses ==
    {concat(ps) :
        ps \in UNION {[1..n -> {NoticePieces[k] : k \in 1..Len(NoticePieces)}] :
                         n \in 0..MaxParts}}

apply_generate_moderation_message ==
    /\ probe.fn = "none"
    /\ \E action_type \in MODERATION_ACTIONS, username \in {username_of(1)},
          reason \in {<<"s","p","a","m">>}, offense_count \in 1..BAN_THRESHOLD,
          net \in Nets(NoticeResponses) :
        probe' = [fn |-> "generate_moderation_message", action_type |-> action_type,
                  username |-> username, reason |-> reason,
                  offense_count |-> offense_count, net |-> net,
                  text |-> generate_moderation_message(action_type, username, reason,
                                                       offense_count, net)]
    /\ UNCHANGED << user_offenses, handlers, unpin_tasks, history >>

\* what the texts of the events are made of: a word, a space, the mention as
\* the bot spells it and in lower case
MentionPieces ==
    << <<"h","i">>,
       <<" ">>,
       bot_mention(BOT_USERNAME),
       lower(bot_mention(BOT_USERNAME)) >>

\* update.message.text: one to MaxParts pieces joined (the filter of the
\* handler lets no empty text through)
MentionTexts ==
    {concat(ps) :
        ps \in UNION {[1..n -> {MentionPieces[k] : k \in 1..Len(MentionPieces)}] :
                         n \in 1..MaxParts}}

\* update.effective_chat.type
ChatTypes == {"private", "group", "supergroup"}

apply_handle_message ==
    /\ probe.fn = "none"
    /\ \E chat_type \in ChatTypes, message_text \in MentionTexts :
        probe' = [fn |-> "handle_message", chat_type |-> chat_type,
                  text |-> message_text,
                  route |-> route_message(chat_type, message_text, BOT_USERNAME),
                  message |-> clean_message(message_text, BOT_USERNAME)]
    /\ UNCHANGED << user_offenses, handlers, unpin_tasks, history >>

NextPure ==
    \/ apply_check_content
    \/ apply_check_username
    \/ apply_process_image
    \/ apply_generate_moderation_message
    \/ apply_handle_message

SpecPure == Init /\ [][NextPure]_vars

(***************************************************************************)
(* What the claims speak about.                                            *)
(***************************************************************************)
\* the handler invocation has called op
HasCall(h, op) == \E i \in 1..Len(h.calls) : h.calls[i].op = op

\* the handler invocation has called op, and the call succeeded (ok) or failed
HasCallOk(h, op, ok) == \E i \in 1..Len(h.calls) : h.calls[i] = [op |-> op, ok |-> ok]

\* the handler has returned, or an exception has left it
Returned(h) == h.pc \in {"done", "raised"}

\* the content verdict of the event is known to the handler
Judged(h) == HasCall(h, "check_content") \/ HasCall(h, "process_image")

\* the probe went through the verdict parser of the classifier fn
Parsed(fn) ==
    /\ probe.fn = fn
    /\ probe.subject # <<>> /\ ~isspace(probe.subject)
    /\ ~probe.net.raises /\ probe.net.status_code = HTTP_OK

(***************************************************************************)
(* C1: after three unsafe content events of a user in a row, counted from  *)
(* an offense count of 0, the third event has called the ban capability    *)
(* and the user's count is 0 once the event has been handled.              *)
(***************************************************************************)
C1_ThirdStrikeBansAndResets ==
    \A s \in DOMAIN handlers :
        LET h == handlers[s] IN
        (Returned(h) /\ Judged(h) /\ ~h.content.safe /\ history[h.user].streak = 3)
            => (HasCall(h, "ban") /\ user_offenses[h.user] = 0)

\* the step that ends the ban branch of an event of user u, after a successful ban call
C2_ResetStep(u) ==
    \E s \in DOMAIN handlers :
        /\ handlers[s].user = u
        /\ HasCallOk(handlers[s], "ban", TRUE)
        /\ handlers[s].pc \in {"send_ban", "pin_ban"}
        /\ handlers'[s].pc = "done"

(***************************************************************************)
(* C2: a step changes an offense count by +1 or sets it to 0; no count is  *)
(* negative; the only step that lowers a count is the reset to 0 at the    *)
(* end of the ban branch, after the ban call succeeded.                    *)
(***************************************************************************)
C2_CountSteps ==
    /\ [](\A u \in Users : user_offenses[u] >= 0)
    /\ [][\A u \in Users :
            \/ user_offenses'[u] = user_offenses[u]
            \/ user_offenses'[u] = user_offenses[u] + 1
            \/ user_offenses'[u] = 0 /\ C2_ResetStep(u)]_vars

\* a ban has reset the count of a user who had reached the third strike
C2_Witness ==
    \E s \in DOMAIN handlers :
        LET h == handlers[s] IN
        /\ h.pc = "done" /\ HasCallOk(h, "ban", TRUE)
        /\ h.offense_count >= 3 /\ user_offenses[h.user] = 0

(***************************************************************************)
(* C3: no step of a handler whose content verdict is safe changes the      *)
(* offense count of any user, whatever the username verdict and the        *)
(* outcomes of the transport calls.                                        *)
(***************************************************************************)
C3_SafeVerdictKeepsCounts ==
    [][\A s \in DOMAIN handlers :
        (handlers'[s] # handlers[s] /\ Judged(handlers'[s]) /\ handlers'[s].content.safe)
            => user_offenses' = user_offenses]_vars

\* a text with safe content and unsafe username has been handled up to the pin,
\* for a user with two strikes
C3_Witness ==
    \E s \in DOMAIN handlers :
        LET h == handlers[s] IN
        /\ h.pc = "done" /\ Judged(h) /\ h.content.safe /\ ~h.username.safe
        /\ HasCall(h, "pin") /\ user_offenses[h.user] = 2

(***************************************************************************)
(* C4, as claimed: handling a group text or group photo whose content      *)
(* verdict is safe never calls delete on the message of the event.         *)
(***************************************************************************)
C4_SafeVerdictNeverDeletes ==
    \A s \in DOMAIN handlers :
        LET h == handlers[s] IN
        (Judged(h) /\ h.content.safe) => ~HasCall(h, "delete")

(***************************************************************************)
(* C4, amended: an event whose content verdict is safe has its message     *)
(* deleted only on the username path of moderate_message, that is for a    *)
(* group text whose username verdict is unsafe; a group photo with a safe  *)
(* verdict is never deleted.                                               *)
(***************************************************************************)
C4_SafeVerdictDeletesOnlyForUsername ==
    \A s \in DOMAIN handlers :
        LET h == handlers[s] IN
        (Judged(h) /\ h.content.safe /\ HasCall(h, "delete"))
            => (h.kind = "text" /\ HasCall(h, "check_username") /\ ~h.username.safe)

\* a text with safe content has been deleted
C4_Witness ==
    \E s \in DOMAIN handlers :
        LET h == handlers[s] IN
        /\ h.kind = "text" /\ Judged(h) /\ h.content.safe
        /\ HasCallOk(h, "delete", TRUE)

(***************************************************************************)
(* C5: the classifiers fail open.  check_content and check_username return *)
(* (True, "") when the inference call raises, returns a status other than  *)
(* 200, or the subject is empty or whitespace; process_image returns       *)
(* (True, "") when the description call raises, returns a status other     *)
(* than 200, or gives an empty description.                                *)
(***************************************************************************)
C5_FailOpen ==
    /\ probe.fn \in {"check_content", "check_username"} =>
        ((\/ probe.net.raises
          \/ probe.net.status_code # 200
          \/ probe.subject = <<>>
          \/ isspace(probe.subject))
            => probe.verdict = [safe |-> TRUE, reason |-> <<>>])
    /\ probe.fn = "process_image" =>
        ((\/ probe.net.raises
          \/ probe.net.status_code # 200
          \/ strip(probe.net.response) = <<>>)
            => (probe.verdict.safe /\ probe.verdict.reason = <<>>))

\* a status other than 200 came with a body that the parser would call unsafe
C5_Witness ==
    /\ probe.fn = "check_content"
    /\ probe.subject = MSG_HI
    /\ ~probe.net.raises /\ probe.net.status_code # 200
    /\ contains(lower(probe.net.response), UNSAFE_LC)
    /\ probe.verdict.safe

(***************************************************************************)
(* C6: the verdict parser of check_content gives: safe for a text that     *)
(* begins with "SAFE"; unsafe, with the trimmed text after the first colon *)
(* as reason, for a text that begins with "UNSAFE:"; safe for the empty    *)
(* text and for "none" (in any letter case); unsafe for every other        *)
(* non-empty text.                                                         *)
(***************************************************************************)
C6_ParserRules ==
    Parsed("check_content") =>
        LET r == strip(probe.net.response)
            v == probe.verdict
            unsafe_colon == UNSAFE \o <<":">>
        IN  /\ startswith(r, SAFE) => v.safe
            /\ startswith(r, unsafe_colon) =>
                (~v.safe /\ v.reason = strip(SubSeq(r, Len(unsafe_colon) + 1, Len(r))))
            /\ (r = <<>> \/ lower(r) = NONE_LC) => v.safe
            /\ (~startswith(r, SAFE) /\ ~startswith(r, unsafe_colon)
                    /\ r # <<>> /\ lower(r) # NONE_LC) => ~v.safe

\* the first rule (a)..(e) that matches the response text r
C7_Rule(r) ==
    CASE contains(lower(r), UNSAFE_LC) -> "a"
      [] OTHER ->
    CASE startswith(r, SAFE) -> "b"
      [] OTHER ->
    CASE startswith(r, UNSAFE) -> "c"
      [] OTHER ->
    CASE r = <<>> \/ lower(r) = NONE_LC -> "d"
      [] OTHER -> "e"

\* the reason of rule (c)
C7_AfterColon(r) ==
    IF \E i \in 1..Len(r) : r[i] = ":"
    THEN LET k == CHOOSE i \in 1..Len(r) : r[i] = ":" /\ \A j \in 1..(i - 1) : r[j] # ":"
         IN  strip(SubSeq(r, k + 1, Len(r)))
    ELSE CONTENT_DEFAULT_REASON

\* the verdict of the rule that matches
C7_Reference(r) ==
    CASE C7_Rule(r) = "a" -> [safe |-> FALSE, reason |-> CONTENT_GENERIC_REASON]
      [] C7_Rule(r) = "b" -> [safe |-> TRUE, reason |-> <<>>]
      [] C7_Rule(r) = "c" -> [safe |-> FALSE, reason |-> C7_AfterColon(r)]
      [] C7_Rule(r) = "d" -> [safe |-> TRUE, reason |-> <<>>]
      [] C7_Rule(r) = "e" -> [safe |-> FALSE, reason |-> CONTENT_UNRECOGNIZED_REASON]

(***************************************************************************)
(* C7: the verdict parser of check_content is the function that applies,   *)
(* in this order and stopping at the first that matches: (a) the text      *)
(* contains "unsafe" in any letter case: unsafe, generic reason; (b) it    *)
(* starts with "SAFE": safe; (c) it starts with "UNSAFE": unsafe, reason   *)
(* the trimmed text after the first colon, or a generic phrase without a   *)
(* colon; (d) it is empty or "none" in any letter case: safe; (e) unsafe,  *)
(* with the unrecognized-format reason.                                    *)
(***************************************************************************)
C7_ParserIsReference ==
    Parsed("check_content") => probe.verdict = C7_Reference(strip(probe.net.response))

\* a response "UNSAFE...:..." was parsed: rule (a) decided it, before rule (c)
C7_Witness ==
    /\ Parsed("check_content")
    /\ startswith(strip(probe.net.response), UNSAFE)
    /\ contains(probe.net.response, <<":">>)
    /\ probe.verdict = [safe |-> FALSE, reason |-> CONTENT_GENERIC_REASON]

(***************************************************************************)
(* C8: once the ban call has succeeded, the user's offense count is 0 when *)
(* the handler returns, whatever the later steps (render, send, pin,       *)
(* schedule of the unpin) do.                                              *)
(***************************************************************************)
C8_BanSucceededThenReset ==
    \A s \in DOMAIN handlers :
        LET h == handlers[s] IN
        (h.pc = "done" /\ HasCallOk(h, "ban", TRUE)) => user_offenses[h.user] = 0

(***************************************************************************)
(* C9: when the ban call of an event fails, the user's count keeps its     *)
(* incremented value; and the next unsafe content event of that user calls *)
(* the ban capability again, with no warning before it.                    *)
(***************************************************************************)
C9_FailedBanIsRetried ==
    \A s \in DOMAIN handlers :
        LET h == handlers[s] IN
        (Returned(h) /\ Judged(h) /\ ~h.content.safe) =>
            /\ HasCallOk(h, "ban", FALSE) => user_offenses[h.user] = h.offense_count
            /\ h.after_ban_failure =>
                \E i \in 1..Len(h.calls) :
                    /\ h.calls[i].op = "ban"
                    /\ \A j \in 1..(i - 1) : h.calls[j].op \notin {"render", "send", "pin"}

(***************************************************************************)
(* C10: moderate_message calls check_username for an event only if the     *)
(* content verdict of that event was safe.                                 *)
(***************************************************************************)
C10_UsernameOnlyAfterSafeContent ==
    \A s \in DOMAIN handlers :
        LET h == handlers[s] IN
        (h.kind = "text" /\ HasCall(h, "check_username")) => h.content.safe

\* the positions of the username-violation path of moderate_message
UsernamePath ==
    {"delete_username", "render_username", "send_username", "pin_username"}

(***************************************************************************)
(* C11: no step of the username-violation path (delete, render, send, pin, *)
(* schedule of the unpin) changes the offense count of any user or calls   *)
(* the ban capability; an event with safe content and unsafe username      *)
(* returns without a ban call.                                             *)
(***************************************************************************)
C11_UsernamePathKeepsCounts ==
    [][\A s \in DOMAIN handlers :
        LET h == handlers[s]
            h2 == handlers'[s]
        IN  /\ (h.pc \in UsernamePath /\ h2 # h) =>
                    /\ user_offenses' = user_offenses
                    /\ Len(h2.calls) > Len(h.calls)
                    /\ \A i \in (Len(h.calls) + 1)..Len(h2.calls) : h2.calls[i].op # "ban"
            /\ (h2.pc \in UsernamePath \/ (Returned(h2) /\ h2.content.safe)) =>
                    ~HasCall(h2, "ban")]_vars

\* an event with safe content and unsafe username of a user with strikes has
\* gone through the whole username path
C11_Witness ==
    \E s \in DOMAIN handlers :
        LET h == handlers[s] IN
        /\ h.pc = "done" /\ h.kind = "text"
        /\ h.content.safe /\ ~h.username.safe
        /\ HasCallOk(h, "delete", TRUE) /\ HasCall(h, "create_task")
        /\ user_offenses[h.user] = 2

\* the call i of the handler invocation is a failed delete of a warn path
\* (strike 1 or 2) or of the username path
FailedDeleteOfWarnOrUsername(h, i) ==
    /\ h.calls[i] = [op |-> "delete", ok |-> FALSE]
    /\ \/ \E j \in 1..(i - 1) : h.calls[j].op = "check_username"
       \/ (~h.content.safe /\ h.offense_count < BAN_THRESHOLD)

(***************************************************************************)
(* C12: after a failed delete call of an unsafe event on a warn path       *)
(* (strike 1 or 2) or on the username path, the event calls no further     *)
(* transport action: no delete, no send, no pin, no schedule of an unpin.  *)
(***************************************************************************)
C12_FailedDeleteEndsEvent ==
    \A s \in DOMAIN handlers :
        LET h == handlers[s] IN
        \A i \in 1..Len(h.calls) :
            FailedDeleteOfWarnOrUsername(h, i) =>
                \A j \in (i + 1)..Len(h.calls) :
                    h.calls[j].op \notin {"delete", "send", "pin", "create_task"}

(***************************************************************************)
(* C13: a third-strike unsafe event whose delete call failed has called    *)
(* the ban capability for the user when it returns.                        *)
(***************************************************************************)
C13_BanDespiteFailedDelete ==
    \A s \in DOMAIN handlers :
        LET h == handlers[s] IN
        ( /\ Returned(h) /\ Judged(h) /\ ~h.content.safe
          /\ h.offense_count >= BAN_THRESHOLD
          /\ \E i \in 1..Len(h.calls) :
                /\ h.calls[i] = [op |-> "delete", ok |-> FALSE]
                /\ \A j \in 1..(i - 1) : h.calls[j].op # "check_username" )
            => HasCall(h, "ban")

\* a warning naming the strike was sent to user u since u's count was last 0
WasWarned(u, strike) ==
    strike \in DOMAIN history[u].warned /\ history[u].warned[strike]

(***************************************************************************)
(* C14: whenever the ban capability is called for a user, a strike-1       *)
(* warning and a strike-2 warning have been sent to that user since the    *)
(* user's offense count was last 0.                                        *)
(***************************************************************************)
C14_BanOnlyAfterTwoWarnings ==
    \A s \in DOMAIN handlers :
        LET h == handlers[s] IN
        h.pc = "ban" => (WasWarned(h.user, 1) /\ WasWarned(h.user, 2))

\* the first positions of the warn branch: the text handler renders the
\* warning, the photo handler sends the one it has built
WarnBranch == {"render_warn", "send_warn"}

\* the step of a handler from h to h2 counts an unsafe content verdict: the
\* count goes up by one and the strike the handler keeps is the new count
C15_Counted(h, h2) ==
    (h.pc \in {"check_content", "process_image"} /\ h2.pc = "delete") =>
        /\ user_offenses'[h.user] = user_offenses[h.user] + 1
        /\ h2.offense_count = user_offenses'[h.user]

\* a step from h to h2 that starts to send a warning: the strike of the
\* warning is the new count, and it is 1 or 2
C15_Strike(h, h2) ==
    (h.pc # "send_warn" /\ h2.pc = "send_warn") =>
        (h2.strike = h2.offense_count /\ h2.strike \in {1, 2})

ProbedDescription == html_unescape(strip(probe.net.response))

\* the probe of process_image obtained a non-empty description
Described ==
    /\ probe.fn = "process_image"
    /\ probe.download_ok /\ ~probe.net.raises /\ probe.net.status_code = HTTP_OK
    /\ ProbedDescription # <<>>

\* the description matches both regular expressions of the compound pattern
MatchesCompound(description) ==
    /\ search_any(virus_alert_words, lower(description))
    /\ search_any(tech_support_words, lower(description))

\* the positions in the keyword list of the keywords the description contains
KeywordHits(description) ==
    {k \in 1..Len(default_scam_keywords) :
        contains(lower(description), default_scam_keywords[k])}

\* the description contains an unsafe subject as a whole word
MatchesSubject(description) ==
    \E k \in 1..Len(default_unsafe_subjects) :
        search_whole_word(default_unsafe_subjects[k], lower(description))

\* the verdict that names the first keyword, in list order, of the description
KeywordVerdict(description) ==
    LET hits == KeywordHits(description)
        first == CHOOSE k \in hits : \A j \in hits : k <= j
    IN  ImageResult(FALSE, SCAM_REASON_PREFIX \o default_scam_keywords[first] \o QUOTE, 0)

(***************************************************************************)
(* C16 as stated: for a description that contains a scam keyword,          *)
(* process_image returns unsafe with the reason naming the first matching  *)
(* keyword in list order and does not call check_content, also when the    *)
(* description matches the compound pattern.                               *)
(***************************************************************************)
C16_KeywordNamedFirst ==
    (Described /\ KeywordHits(ProbedDescription) # {}) =>
        probe.verdict = KeywordVerdict(ProbedDescription)

(***************************************************************************)
(* C16 amended: for a description that contains a scam keyword and does    *)
(* not match the compound pattern, process_image returns unsafe with the   *)
(* reason naming the first matching keyword in list order and does not     *)
(* call check_content; the compound pattern is checked before the          *)
(* keywords, so a description that matches it as well is unsafe with the   *)
(* tech-support reason, again without a call of check_content.             *)
(***************************************************************************)
C16_KeywordNamedUnlessCompound ==
    (Described /\ KeywordHits(ProbedDescription) # {}) =>
        IF MatchesCompound(ProbedDescription)
        THEN probe.verdict = ImageResult(FALSE, TECH_SUPPORT_REASON, 0)
        ELSE probe.verdict = KeywordVerdict(ProbedDescription)

\* a description with the keywords "winner" and, earlier in the list, "gift
\* card" was judged unsafe with the reason naming "gift card"
C16_Witness ==
    /\ Described /\ probe.net.response = DESC_WINNER
    /\ Cardinality(KeywordHits(ProbedDescription)) = 2
    /\ ~probe.verdict.safe /\ probe.verdict.content_calls = 0
    /\ probe.verdict.reason =
            SCAM_REASON_PREFIX \o <<"g","i","f","t"," ","c","a","r","d">> \o QUOTE

(***************************************************************************)
(* C17: when a deterministic rule of process_image fires (compound         *)
(* pattern, scam keyword, or whole-word unsafe subject) the verdict is     *)
(* unsafe and check_content is not called; when no rule fires on the       *)
(* description, check_content is called exactly once.                      *)
(***************************************************************************)
C17_RulesShortCircuit ==
    Described =>
        IF \/ MatchesCompound(ProbedDescription)
           \/ KeywordHits(ProbedDescription) # {}
           \/ MatchesSubject(ProbedDescription)
        THEN ~probe.verdict.safe /\ probe.verdict.content_calls = 0
        ELSE probe.verdict.content_calls = 1

\* the whole-word subject rule fired on "a naked person" although the call
\* of check_content would have said safe
C17_Witness ==
    /\ Described /\ probe.net.response = DESC_NAKED
    /\ probe.content_net = Outcome(FALSE, HTTP_OK, RESP_SAFE)
    /\ ~probe.verdict.safe /\ probe.verdict.content_calls = 0

\* the probe is a call of generate_moderation_message
Rendered == probe.fn = "generate_moderation_message"

\* the inference call of the probe failed: it raised, or the status is not 200
InferenceFailed == probe.net.raises \/ probe.net.status_code # HTTP_OK

\* the header that fits the action
HeaderOf(action_type) == IF action_type = "ban" THEN BAN_HEADER ELSE DELETED_HEADER

(***************************************************************************)
(* C18: when the inference call of generate_moderation_message raises or   *)
(* returns a status other than 200, the text returned is the fallback      *)
(* template of the action kind, and contains the username and the reason.  *)
(***************************************************************************)
C18_FallbackIsTemplateOfAction ==
    (Rendered /\ InferenceFailed) =>
        /\ probe.text = fallback_message(probe.action_type, probe.username, probe.reason,
                                         probe.offense_count)
        /\ contains(probe.text, probe.username)
        /\ contains(probe.text, probe.reason)

(***************************************************************************)
(* C19: for action delete_username the text returned by                    *)
(* generate_moderation_message does not contain the username, whether the  *)
(* inference call succeeded, returned another status or raised.            *)
(***************************************************************************)
C19_UsernameNoticeHidesUsername ==
    (Rendered /\ probe.action_type = "delete_username") =>
        ~contains(probe.text, probe.username)

(***************************************************************************)
(* C20: every text returned by generate_moderation_message begins with the *)
(* header of its action: the ban header for ban, the deletion header for   *)
(* delete_content and delete_username.                                     *)
(***************************************************************************)
C20_HeaderFitsAction ==
    Rendered => startswith(probe.text, HeaderOf(probe.action_type))

(***************************************************************************)
(* C24: every verdict returned by check_content, check_username and        *)
(* process_image has an empty reason when safe is true and a non-empty     *)
(* reason when safe is false.                                              *)
(***************************************************************************)
C24_ReasonIffUnsafe ==
    probe.fn \in {"check_content", "check_username", "process_image"} =>
        (probe.verdict.safe <=> probe.verdict.reason = <<>>)

\* a response that begins with SAFE and goes on was parsed: the verdict is
\* safe and carries none of the response as reason
C24_Witness ==
    /\ Parsed("check_username")
    /\ startswith(strip(probe.net.response), SAFE)
    /\ Len(strip(probe.net.response)) > Len(SAFE)
    /\ probe.verdict.safe /\ probe.verdict.reason = <<>>

\* the generated text of the probe with its header, before the "@" rewrite
HeadedText == with_header(probe.action_type, html_unescape(probe.net.response))

(***************************************************************************)
(* C30: for an action other than delete_username, in the text returned by  *)
(* generate_moderation_message after a successful inference call every     *)
(* occurrence of the username is preceded by "@", also when the generated  *)
(* text holds both a prefixed and an unprefixed occurrence; and no         *)
(* occurrence that had its "@" is given a second one.                      *)
(***************************************************************************)
C30_EveryMentionPrefixed ==
    ( /\ Rendered /\ probe.action_type # "delete_username"
      /\ ~probe.net.raises /\ probe.net.status_code = HTTP_OK ) =>
        /\ \A i \in 1..Len(probe.text) :
                occurs_at(probe.text, probe.username, i) =>
                    (i > 1 /\ probe.text[i - 1] = "@")
        /\ contains(probe.text, <<"@", "@">> \o probe.username) =>
                contains(HeadedText, <<"@", "@">> \o probe.username)

\* how often the handler invocation has called op
CallCount(h, op) == Cardinality({i \in 1..Len(h.calls) : h.calls[i].op = op})

(***************************************************************************)
(* C26: while one event is handled, each of delete, ban, send and pin is   *)
(* called at most once; a delete that failed is not followed by another    *)
(* delete.                                                                 *)
(***************************************************************************)
C26_NoSecondAttempt ==
    \A s \in DOMAIN handlers :
        \A op \in {"delete", "ban", "send", "pin"} : CallCount(handlers[s], op) <= 1

(***************************************************************************)
(* C27: whenever no handler is running, the offense count of every user is *)
(* 0, 1 or 2.                                                              *)
(***************************************************************************)
C27_CountBelowThreeBetweenEvents ==
    (\A s \in DOMAIN handlers : handlers[s].pc \in Final) =>
        \A u \in Users : user_offenses[u] \in {0, 1, 2}

RECURSIVE WithoutMention(_, _)
\* the text s with every occurrence of the mention m, in any letter case, removed
WithoutMention(s, m) ==
    IF Len(s) < Len(m) \/ s = <<>> THEN s
    ELSE IF startswith(lower(s), lower(m))
    THEN WithoutMention(SubSeq(s, Len(m) + 1, Len(s)), m)
    ELSE << Head(s) >> \o WithoutMention(Tail(s), m)

\* handle_message was given a group text that holds the mention in some letter
\* case and something else besides it
MentionedWithText ==
    /\ probe.fn = "handle_message"
    /\ probe.chat_type # "private"
    /\ is_mentioned(probe.text, BOT_USERNAME)
    /\ strip(WithoutMention(probe.text, bot_mention(BOT_USERNAME))) # <<>>

(***************************************************************************)
(* C21: a group text that holds the bot mention in any letter case is      *)
(* routed to handle_mention, which is given the text with the mention      *)
(* removed and the ends trimmed.                                           *)
(***************************************************************************)
C21_MentionRemovedAndTrimmed ==
    MentionedWithText =>
        /\ probe.route = "handle_mention"
        /\ probe.message = strip(WithoutMention(probe.text, bot_mention(BOT_USERNAME)))

\* the handler invocations that were started
Started == {s \in DOMAIN handlers : handlers[s].kind # "none"}

\* the event of h is a photo: a photo message has no text
IsPhotoEvent(h) == h.text = <<>>

\* the handlers of the conversational paths
ConversationKinds == {"private", "mention", "private_photo"}

\* the moderation calls: the classifiers and the delete
ModerationCalls == {"check_content", "check_username", "process_image", "delete", "ban"}

\* a handler of a conversational path calls no classifier and deletes nothing
ConversationModeratesNothing ==
    \A s \in Started :
        handlers[s].kind \in ConversationKinds =>
            \A i \in 1..Len(handlers[s].calls) :
                handlers[s].calls[i].op \notin ModerationCalls

\* the handler an event with a photo, or a text in a private chat, is given to
RoutedByChat(h) ==
    /\ (IsPhotoEvent(h) /\ h.chat.type = "private") => h.kind = "private_photo"
    /\ (IsPhotoEvent(h) /\ h.chat.type # "private") => h.kind = "photo"
    /\ (~IsPhotoEvent(h) /\ h.chat.type = "private") => h.kind = "private"

C23_NoHandlerRaises ==
    \A s \in DOMAIN handlers : handlers[s].pc # "raised"

\* the step is a pin call of handler s that succeeded
PinSucceeds(s) ==
    /\ Len(handlers'[s].calls) > Len(handlers[s].calls)
    /\ SubSeq(handlers'[s].calls, 1, Len(handlers[s].calls)) = handlers[s].calls
    /\ \E i \in (Len(handlers[s].calls) + 1)..Len(handlers'[s].calls) :
            handlers'[s].calls[i] = [op |-> "pin", ok |-> TRUE]

\* the unpin task of the notice handler invocation h has sent
UnpinTaskOf(h) ==
    [chat_id |-> h.chat.id, message_id |-> h.sent_message,
     delay |-> IF HasCallOk(h, "ban", TRUE) THEN 60 ELSE 30]

\* what a step does to the unpin tasks
UnpinTaskStep ==
    /\ \A s \in DOMAIN handlers :
        PinSucceeds(s) =>
            /\ handlers[s].chat.type \in {"group", "supergroup"}
            /\ unpin_tasks' = unpin_tasks \cup {UnpinTaskOf(handlers'[s])}
            /\ UnpinTaskOf(handlers'[s]) \notin unpin_tasks
            /\ handlers'[s].pc = "done"
    /\ (unpin_tasks' \ unpin_tasks # {}) => \E s \in DOMAIN handlers : PinSucceeds(s)
    /\ (unpin_tasks \ unpin_tasks' # {}) =>
            /\ Cardinality(unpin_tasks \ unpin_tasks') = 1
            /\ unpin_tasks' \subseteq unpin_tasks
            /\ UNCHANGED << user_offenses, handlers, history >>

(***************************************************************************)
(* C25: a pin call that succeeds in a group or supergroup creates exactly  *)
(* one unpin task, for the chat and the message of the notice, with delay  *)
(* 60 for a ban notice and 30 for the others, and the handler returns in   *)
(* the same step, the task still pending; no other step creates a task; a  *)
(* task ends with one unpin call, which removes that task alone and        *)
(* changes nothing else, whether it succeeds or fails; every task          *)
(* eventually makes its call.                                              *)
(***************************************************************************)
C25_OneUnpinPerPinnedNotice ==
    /\ [][UnpinTaskStep]_vars
    /\ \A t \in UnpinTasks : (t \in unpin_tasks) ~> (t \notin unpin_tasks)

\* a handler has returned after the pin of its ban notice, the unpin pending
C25_Witness ==
    \E s \in DOMAIN handlers :
        /\ handlers[s].pc = "done"
        /\ HasCallOk(handlers[s], "pin", TRUE)
        /\ HasCallOk(handlers[s], "ban", TRUE)
        /\ UnpinTaskOf(handlers[s]) \in unpin_tasks

\* the step is the one in which handler s counts the offense of its event
IncrementStep(s) == handlers[s].offense_count = 0 /\ handlers'[s].offense_count > 0

\* handler t of the same user counted its offense before this step of s, and
\* the count was not set back since
CountedBefore(t, s) ==
    /\ t # s
    /\ handlers[t].user = handlers[s].user
    /\ handlers[t].offense_count > 0
    /\ user_offenses[handlers[s].user] >= handlers[t].offense_count

(***************************************************************************)
(* C28: with two events of one user in flight, the step in which a handler *)
(* counts an offense raises the count by exactly one and reads the raised  *)
(* count as its strike number; the strike number differs from that of      *)
(* every handler that counted earlier with no reset since.                 *)
(***************************************************************************)
C28_IncrementAndReadAtomic ==
    [][\A s \in DOMAIN handlers :
        IncrementStep(s) =>
            /\ user_offenses'[handlers[s].user] = user_offenses[handlers[s].user] + 1
            /\ handlers'[s].offense_count = user_offenses'[handlers[s].user]
            /\ \A t \in DOMAIN handlers :
                    CountedBefore(t, s) =>
                        handlers'[s].offense_count # handlers[t].offense_count]_vars

\* two events of one user are in flight and have counted different strikes
C28_Witness ==
    \E s, t \in DOMAIN handlers :
        /\ s # t
        /\ handlers[s].user = handlers[t].user
        /\ handlers[s].pc \notin Final /\ handlers[t].pc \notin Final
        /\ handlers[s].offense_count > 0
        /\ handlers[t].offense_count > handlers[s].offense_count

\* the step is the one in which handler s sets the count of its user back
ResetStep(s) ==
    /\ handlers[s].user \in DOMAIN user_offenses
    /\ handlers'[s] # handlers[s]
    /\ user_offenses'[handlers[s].user] < user_offenses[handlers[s].user]
    /\ user_offenses[handlers[s].user] >= handlers[s].offense_count

\* the step is a ban call of handler s
BanCallStep(s) == CallCount(handlers'[s], "ban") > CallCount(handlers[s], "ban")

(***************************************************************************)
(* C29: with two events of one user in flight, the reset of a banning      *)
(* handler leaves the strikes counted after its own, and no handler calls  *)
(* ban while another handler of the same user that has called ban is still *)
(* in flight.                                                              *)
(***************************************************************************)
C29_ResetKeepsLaterStrikes ==
    [][\A s \in DOMAIN handlers :
        /\ ResetStep(s) =>
                user_offenses'[handlers[s].user] =
                    user_offenses[handlers[s].user] - handlers[s].offense_count
        /\ BanCallStep(s) =>
                ~ \E t \in DOMAIN handlers :
                    /\ t # s
                    /\ handlers[t].user = handlers[s].user
                    /\ handlers[t].pc \notin Final
                    /\ HasCall(handlers[t], "ban")]_vars

\* call number i of h is a send, and no delete call before it succeeded
SendWithoutDelete(h, i) ==
    /\ h.calls[i].op = "send"
    /\ \A j \in 1..(i - 1) : h.calls[j] # [op |-> "delete", ok |-> TRUE]

(***************************************************************************)
(* C31: every send of a notice (warning, ban notice, username notice) is   *)
(* preceded, in the same handler invocation, by a delete call on the       *)
(* message of the event that succeeded.                                    *)
(***************************************************************************)
C31_NoticeOnlyAfterDelete ==
    \A s \in DOMAIN handlers :
        \A i \in 1..Len(handlers[s].calls) : ~SendWithoutDelete(handlers[s], i)

\* the content delete of a text event failed, the delete of the username path
\* succeeded, and the username notice was sent
C31_Witness ==
    \E s \in DOMAIN handlers :
        /\ handlers[s].kind = "text"
        /\ HasCallOk(handlers[s], "delete", FALSE)
        /\ HasCallOk(handlers[s], "delete", TRUE)
        /\ HasCallOk(handlers[s], "send", TRUE)

\* call number i of h belongs to the ban notice: its send, its pin or the
\* creation of its unpin task
NoticeCallOfBan(h, i) ==
    /\ HasCall(h, "ban")
    /\ h.calls[i].op \in {"send", "pin", "create_task"}

(***************************************************************************)
(* C32: in an event that calls ban, the notice is sent and pinned and its  *)
(* unpin scheduled only after the ban call succeeded; when the ban call    *)
(* failed, the handler has deleted the message, sends and pins nothing,    *)
(* schedules no unpin and leaves the count at the value it counted.        *)
(***************************************************************************)
C32_BanNoticeOnlyAfterBan ==
    \A s \in DOMAIN handlers :
        LET h == handlers[s] IN
        /\ \A i \in 1..Len(h.calls) :
                NoticeCallOfBan(h, i) =>
                    \E j \in 1..(i - 1) : h.calls[j] = [op |-> "ban", ok |-> TRUE]
        /\ HasCallOk(h, "ban", FALSE) =>
                /\ HasCallOk(h, "delete", TRUE)
                /\ h.pc = "done"
                /\ ~HasCall(h, "send") /\ ~HasCall(h, "pin") /\ ~HasCall(h, "create_task")
                /\ h.offense_count >= BAN_THRESHOLD
                /\ user_offenses[h.user] = h.offense_count

\* a ban call failed after the delete succeeded, and the count stays at 3
C32_Witness ==
    \E s \in DOMAIN handlers :
        /\ HasCallOk(handlers[s], "ban", FALSE)
        /\ HasCallOk(handlers[s], "delete", TRUE)
        /\ user_offenses[handlers[s].user] = BAN_THRESHOLD

\* a step changes the count of user u only as a step of a handler of an event
\* of u, by adding one or by setting it to 0
CountKeyedByUser(u) ==
    user_offenses'[u] # user_offenses[u] =>
        /\ \E s \in DOMAIN handlers :
                handlers'[s].user = u /\ handlers'[s] # handlers[s]
        /\ user_offenses'[u] \in {user_offenses[u] + 1, 0}

\* handler invocation h has counted its offense, and every content event of
\* its user since the count was 0 was unsafe
InStreak(h) ==
    /\ h.user \in DOMAIN user_offenses
    /\ h.offense_count > 0
    /\ history[h.user].streak > 0

EscalationOps == {"delete", "ban", "send", "pin", "create_task"}

\* the transport calls handler invocation h has made, in their order
TransportCalls(h) ==
    LET IsTransport(c) == c.op \in EscalationOps
    IN  SelectSeq(h.calls, IsTransport)

\* the call the escalation makes after the transport call last of an event
\* with the given strike ("none": the event ends)
EscalationNext(strike, last) ==
    IF ~last.ok THEN "none"
    ELSE CASE last.op = "start"  -> "delete"
           [] last.op = "delete" -> IF strike >= BAN_THRESHOLD THEN "ban" ELSE "send"
           [] last.op = "ban"    -> "send"
           [] last.op = "send"   -> "pin"
           [] last.op = "pin"    -> "create_task"
           [] OTHER              -> "none"

\* the transport calls t are a run of the escalation for the given strike, up
\* to its end when the event is over
IsEscalationRun(strike, t, over) ==
    LET before(i) == IF i = 1 THEN [op |-> "start", ok |-> TRUE] ELSE t[i - 1]
    IN  /\ \A i \in 1..Len(t) : t[i].op = EscalationNext(strike, before(i))
        /\ over => EscalationNext(strike, before(Len(t) + 1)) = "none"

\* the count the escalation leaves: 0 once the ban notice was sent
EscalationCount(strike, t) ==
    IF /\ \E i \in 1..Len(t) : t[i] = [op |-> "ban", ok |-> TRUE]
       /\ \E i \in 1..Len(t) : t[i] = [op |-> "send", ok |-> TRUE]
    THEN 0 ELSE strike

(***************************************************************************)
(* C34: the handler of a text and the handler of a photo with an unsafe    *)
(* content verdict go through one and the same escalation: the strike and  *)
(* the outcomes of the transport calls determine the sequence of delete,   *)
(* ban, send, pin and unpin scheduling, and the count the event leaves.    *)
(***************************************************************************)
C34_SameEscalation ==
    \A s \in DOMAIN handlers :
        LET h == handlers[s] IN
        (h.kind \in {"text", "photo"} /\ h.offense_count > 0) =>
            /\ IsEscalationRun(h.offense_count, TransportCalls(h), h.pc = "done")
            /\ h.pc = "done" =>
                    user_offenses[h.user] = EscalationCount(h.offense_count, TransportCalls(h))

====
